---- MODULE Spec2Model ----
(***************************************************************************)
(* zedl10n: translation batch & substitution pipeline.                     *)
(*                                                                         *)
(* Text is a sequence of characters; a character is a one-element TLA+     *)
(* string.  "Z" stands for any target-language letter, "FW{" and "FW}"     *)
(* for the full-width braces U+FF5B / U+FF5D.  A dict is a function whose  *)
(* DOMAIN is its key set.                                                  *)
(***************************************************************************)
EXTENDS Integers, Sequences, FiniteSets, Bags, TLC

VARIABLES
    \* ---- prompts.validate_placeholders called on one dict
    vp_translations, vp_errors, vp_pc,
    \* ---- translate._translate_async: its arguments
    all_strings,      \* sequence of [file, strings]: the extraction dict, in order
    existing,         \* file -> dict
    mode,             \* "incremental" | "full"
    concurrency,      \* ai_cfg.concurrency
    \* ---- translate._translate_async: its locals
    run_pc,           \* "init" | "merging" | "done"
    result,           \* file -> dict, the map being built
    tasks,            \* sequence of [fp, b]: the do_batch tasks, b the batch keys
    semaphore,        \* value of the asyncio.Semaphore
    holders,          \* tasks inside the "async with semaphore" block
    task_state,       \* per task: position and locals of its _translate_batch
    completed,        \* finished tasks not yet merged, in completion order
    pbar_current,     \* ProgressBar.current
    fail_count,
    \* ---- the remote model behind client.chat.completions.create
    remote_mode,      \* "any": every request may get any outcome;
                      \* "scripted": each task's requests follow a script
    remote_script,    \* task -> outcomes still to come (scripted mode)
    \* ---- replace.replace_in_source: its arguments and module state
    rp_translations,  \* sequence of [file, items]: the translation dict, in
                      \* order; items the <<original, value>> pairs, in order
    source_root,      \* Path(source_root)
    disk,             \* path -> [text, readable, decodable, writable]
    do_not_translate, \* _do_not_translate: set of <<file, original>>
    global_do_not_translate,
    \* ---- replace.replace_in_source: its locals
    rp_pc,            \* "loop" | "returned" | "aborted"
    rp_index,         \* position of the for loop in rp_translations
    total_count,
    missing_files,
    \* ---- history: every replacement that changed a file, as
    \* [file, original, new_value, new_text, n]
    substituted,
    rp_run,           \* 1 in the first run of the command, 2 in the second
    first_disk,       \* the files as the first run left them
    persisted,        \* the translation dict in the file replace.run read it from
    calls,            \* the text and the protected ranges that each call of
                      \* _replace_skip_protected was given, in order
    \* ---- an entry point of the command line and its AIConfig
    en_command,       \* "translate" | "scan" | "scan_incremental" | "pipeline"
    en_args,          \* [api_key, concurrency]: the command-line values
    en_environ,       \* [AI_API_KEY, AI_CONCURRENCY]: os.environ
    en_work,          \* remote requests the command makes when it is let run
    ai_cfg,           \* the AIConfig, [api_key, concurrency]
    en_pc,            \* "construct" | "steps" | "done" | "fatal"
    en_step,          \* position in the steps of the command
    remote_calls,     \* requests sent to the remote API so far
    \* ---- translate._split_batch called on one pending set; a text is known
    \* by its token estimate (prompts.estimate_tokens)
    sb_items,         \* the pending set in order: sequence of [id, tokens]
    sb_system,        \* estimate of the system prompt
    sb_template,      \* estimate of the fixed text of the user prompt
    sb_content,       \* estimate of the file content
    sb_cut,           \* estimate of the content if it gets truncated
    sb_max_tokens,    \* the token ceiling
    sb_pc,            \* "start" | "loop" | "done" | "raised"
    sb_capacity,      \* capacity, while the shrinking loop runs
    sb_batches,       \* the batches returned
    sb_returned,      \* the content returned: [tokens, truncated]
    \* ---- consistency.fix_consistency followed by check_consistency
    cs_before,        \* the map fix_consistency is called with
    cs_glossary,      \* what _load_glossary returns: [terms, keep_original]
    cs_translations,  \* the map, fixed in place: sequence of [file, pairs]
    cs_pc,            \* "start" | "unified" | "fixed" | "checked"
    cs_issues,        \* the issues check_consistency returns
    cs_reported,      \* [done, issues]: the cross-file issues that the check
                      \* made before the fix reported, in order
    \* ---- a function of one text called on its own
    pf_in,            \* the argument
    pf_out,           \* the value returned
    pf_pc             \* "start" | "done"

vpVars == <<vp_translations, vp_errors, vp_pc>>
inVars == <<all_strings, existing, mode, concurrency>>
remoteVars == <<remote_mode, remote_script>>
trVars == <<inVars, run_pc, result, tasks, semaphore, holders, task_state,
            completed, pbar_current, fail_count, remoteVars>>
rpInVars == <<rp_translations, source_root, do_not_translate,
              global_do_not_translate>>
runVars == <<rp_run, first_disk, persisted, calls>>
rpVars == <<rpInVars, disk, rp_pc, rp_index, total_count, missing_files,
            substituted, runVars>>
enInVars == <<en_command, en_args, en_environ, en_work>>
enVars == <<enInVars, ai_cfg, en_pc, en_step, remote_calls>>
sbInVars == <<sb_items, sb_system, sb_template, sb_content, sb_cut,
              sb_max_tokens>>
sbVars == <<sbInVars, sb_pc, sb_capacity, sb_batches, sb_returned>>
csInVars == <<cs_before, cs_glossary>>
csVars == <<csInVars, cs_translations, cs_pc, cs_issues, cs_reported>>
pfVars == <<pf_in, pf_out, pf_pc>>
vars == <<vpVars, trVars, rpVars, enVars, sbVars, csVars, pfVars>>

\* what the actions of one part leave alone
notVp == <<trVars, rpVars, enVars, sbVars, csVars, pfVars>>
notTr == <<vpVars, rpVars, enVars, sbVars, csVars, pfVars>>
notRp == <<vpVars, trVars, enVars, sbVars, csVars, pfVars>>
notEn == <<vpVars, trVars, rpVars, sbVars, csVars, pfVars>>
notSb == <<vpVars, trVars, rpVars, enVars, csVars, pfVars>>
notCs == <<vpVars, trVars, rpVars, enVars, sbVars, pfVars>>
notPf == <<vpVars, trVars, rpVars, enVars, sbVars, csVars>>

\* ------------------------------------------------------------------------
\* Generic helpers
\* ------------------------------------------------------------------------
EmptyDict == [k \in {} |-> <<>>]

\* dict.update(d)
DictUpdate(m, d) ==
    [k \in (DOMAIN m) \cup (DOMAIN d) |-> IF k \in DOMAIN d THEN d[k] ELSE m[k]]

MinOf(S) == CHOOSE x \in S : \A y \in S : x <= y

RECURSIVE Flatten(_)
Flatten(ss) == IF ss = <<>> THEN <<>> ELSE Head(ss) \o Flatten(Tail(ss))

\* ------------------------------------------------------------------------
\* Bounds and the text universe
\* ------------------------------------------------------------------------
\* longest text drawn for the validator, in pieces
MaxPieces == 2

Pieces ==
    { <<"Z">>, <<"{", "}">>, <<"{", ":", "?", "}">>, <<"%", "s">>,
      <<"{", "n", "}">>, <<"{", "0", "}">> }

PieceSeqs(n) == UNION { [1..k -> Pieces] : k \in 0..n }

Texts == { Flatten(ps) : ps \in PieceSeqs(MaxPieces) }

\* code points of the modelled characters (Python compares str by code point)
CodePoint ==
    [c \in {"%", "0", ":", "?", "S", "Z", "n", "s", "x", "{", "}"} |->
        CASE c = "%" -> 37 [] c = "0" -> 48 [] c = ":" -> 58 [] c = "?" -> 63
          [] c = "S" -> 83 [] c = "Z" -> 90 [] c = "n" -> 110 [] c = "s" -> 115
          [] c = "x" -> 120 [] c = "{" -> 123 [] c = "}" -> 125]

\* ------------------------------------------------------------------------
\* utils.extract_placeholders: brace-delimited tokens and percent-prefixed
\* one-character conversions, left to right
\* ------------------------------------------------------------------------
PercentConversions == {"s", "d", "f"}

\* position of the "}" closing the "{" at i, or 0 when another brace or the
\* end of the text comes first
BraceClose(text, i) ==
    LET J == { j \in (i + 1)..Len(text) : text[j] \in {"{", "}"} }
    IN  IF J = {} THEN 0
        ELSE IF text[MinOf(J)] = "}" THEN MinOf(J) ELSE 0

RECURSIVE ScanPlaceholders(_, _)
ScanPlaceholders(text, i) ==
    IF i > Len(text) THEN <<>>
    ELSE IF text[i] = "{" /\ BraceClose(text, i) # 0
         THEN <<SubSeq(text, i, BraceClose(text, i))>>
                  \o ScanPlaceholders(text, BraceClose(text, i) + 1)
    ELSE IF text[i] = "%" /\ i < Len(text) /\ text[i + 1] \in PercentConversions
         THEN <<SubSeq(text, i, i + 1)>> \o ScanPlaceholders(text, i + 2)
    ELSE ScanPlaceholders(text, i + 1)

extract_placeholders(text) == ScanPlaceholders(text, 1)

\* ------------------------------------------------------------------------
\* Python list helpers used by the validators
\* ------------------------------------------------------------------------
\* str < str, lexicographic by code point
RECURSIVE StrLess(_, _)
StrLess(a, b) ==
    IF b = <<>> THEN FALSE
    ELSE IF a = <<>> THEN TRUE
    ELSE IF CodePoint[Head(a)] # CodePoint[Head(b)]
         THEN CodePoint[Head(a)] < CodePoint[Head(b)]
    ELSE StrLess(Tail(a), Tail(b))

RECURSIVE InsertSorted(_, _)
InsertSorted(x, s) ==
    IF s = <<>> THEN <<x>>
    ELSE IF StrLess(Head(s), x) THEN <<Head(s)>> \o InsertSorted(x, Tail(s))
    ELSE <<x>> \o s

\* sorted(list)
RECURSIVE sorted(_)
sorted(s) == IF s = <<>> THEN <<>> ELSE InsertSorted(Head(s), sorted(Tail(s)))

\* ------------------------------------------------------------------------
\* prompts._is_positional / prompts.validate_placeholders
\* ------------------------------------------------------------------------
is_positional(ph) ==
    IF Head(ph) = "%" THEN TRUE
    ELSE LET inner == SubSeq(ph, 2, Len(ph) - 1)
         IN  inner = <<>> \/ Head(inner) = ":"

IsPos(ph) == is_positional(ph)
IsNamed(ph) == ~is_positional(ph)

\* the named/indexed comparison of validate_placeholders (lines 169-171)
NamedEqualAsSets(src_ph, dst_ph) ==
    LET src_named == SelectSeq(src_ph, IsNamed)
        dst_named == SelectSeq(dst_ph, IsNamed)
    IN  { src_named[i] : i \in DOMAIN src_named }
            = { dst_named[i] : i \in DOMAIN dst_named }

named_match(src_ph, dst_ph) ==
    sorted(SelectSeq(src_ph, IsNamed)) = sorted(SelectSeq(dst_ph, IsNamed))

\* the positional comparison of validate_placeholders (lines 163-165)
PositionalIgnoringOrder(src_ph, dst_ph) ==
    sorted(SelectSeq(src_ph, IsPos)) = sorted(SelectSeq(dst_ph, IsPos))

positional_match(src_ph, dst_ph) ==
    SelectSeq(src_ph, IsPos) = SelectSeq(dst_ph, IsPos)

\* one iteration of the loop body: does (original, translated) get an error
pair_has_error(original, translated) ==
    IF translated = <<>> THEN FALSE
    ELSE LET src_ph == extract_placeholders(original)
             dst_ph == extract_placeholders(translated)
         IN  IF ~positional_match(src_ph, dst_ph) THEN TRUE
             ELSE ~named_match(src_ph, dst_ph)

validate_placeholders(translations) ==
    [original \in { o \in DOMAIN translations :
                        pair_has_error(o, translations[o]) } |->
        <<extract_placeholders(original),
          extract_placeholders(translations[original])>>]

\* ------------------------------------------------------------------------
\* Specification SpecValidate: validate_placeholders on a one-entry dict
\* ------------------------------------------------------------------------
IdleValidate ==
    /\ vp_translations = EmptyDict
    /\ vp_errors = EmptyDict
    /\ vp_pc = "idle"

IdleTranslate ==
    /\ all_strings = <<>>
    /\ existing = EmptyDict
    /\ mode = "incremental"
    /\ concurrency = 1
    /\ run_pc = "idle"
    /\ result = EmptyDict
    /\ tasks = <<>>
    /\ semaphore = 0
    /\ holders = {}
    /\ task_state = <<>>
    /\ completed = <<>>
    /\ pbar_current = 0
    /\ fail_count = 0
    /\ remote_mode = "any"
    /\ remote_script = <<>>

IdleReplace ==
    /\ rp_translations = <<>>
    /\ source_root = <<>>
    /\ disk = EmptyDict
    /\ do_not_translate = {}
    /\ global_do_not_translate = {}
    /\ rp_pc = "idle"
    /\ rp_index = 1
    /\ total_count = 0
    /\ missing_files = <<>>
    /\ substituted = {}
    /\ rp_run = 0
    /\ first_disk = <<>>
    /\ persisted = <<>>
    /\ calls = <<>>

IdleEntry ==
    /\ en_command = "none"
    /\ en_args = [api_key |-> "", concurrency |-> 10]
    /\ en_environ = [AI_API_KEY |-> "", AI_CONCURRENCY |-> "unset"]
    /\ en_work = 0
    /\ ai_cfg = [api_key |-> "", concurrency |-> 10]
    /\ en_pc = "idle"
    /\ en_step = 1
    /\ remote_calls = 0

IdleSplit ==
    /\ sb_items = <<>>
    /\ sb_system = 0
    /\ sb_template = 0
    /\ sb_content = 0
    /\ sb_cut = 0
    /\ sb_max_tokens = 0
    /\ sb_pc = "idle"
    /\ sb_capacity = 0
    /\ sb_batches = <<>>
    /\ sb_returned = [tokens |-> 0, truncated |-> FALSE]

IdlePure ==
    /\ pf_in = <<>>
    /\ pf_out = <<>>
    /\ pf_pc = "idle"

IdleConsistency ==
    /\ cs_before = <<>>
    /\ cs_glossary = [terms |-> <<>>, keep_original |-> <<>>]
    /\ cs_translations = <<>>
    /\ cs_pc = "idle"
    /\ cs_issues = {}
    /\ cs_reported = [done |-> FALSE, issues |-> <<>>]

InitValidate ==
    /\ IdleTranslate
    /\ IdleReplace
    /\ IdleEntry
    /\ IdleSplit
    /\ IdleConsistency
    /\ IdlePure
    /\ vp_translations \in { [k \in {o} |-> t] : o \in Texts, t \in Texts }
    /\ vp_errors = EmptyDict
    /\ vp_pc = "start"

Validate ==
    /\ vp_pc = "start"
    /\ vp_errors' = validate_placeholders(vp_translations)
    /\ vp_pc' = "done"
    /\ UNCHANGED <<vp_translations, notVp>>

NextValidate == Validate

SpecValidate == InitValidate /\ [][NextValidate]_vars

\* ------------------------------------------------------------------------
\* The remote model and the three response decoders (utils.py)
\*
\* A reply is [kind, body]: the format the text is written in and what it
\* carries.  kind "json"/"xml": body is a dict; kind "numbered": body is a
\* sequence of <<number, value>> lines; kind "junk": text in no format.
\* JSON text need not hold a dict of strings: form "list" is a non-empty
\* JSON value that is no dict, and a dict may hold NotAString.
\* ------------------------------------------------------------------------
Junk == [kind |-> "junk", form |-> "dict", body |-> EmptyDict]

\* a JSON value that is true in a condition and is no string (a number)
NotAString == <<"int">>

\* json.loads gave a non-empty value that is no dict
IsList(raw) == raw.kind = "json" /\ raw.form = "list"

parse_json_response(raw) ==
    IF raw.kind = "json" THEN raw.body ELSE EmptyDict

parse_xml_response(raw) ==
    IF raw.kind = "xml"
    THEN [s \in { k \in DOMAIN raw.body : k # <<>> } |-> raw.body[s]]
    ELSE EmptyDict

\* later lines overwrite earlier ones; numbers outside 1..len(keys) are dropped
RECURSIVE NumberedLines(_, _, _)
NumberedLines(lines, keys, acc) ==
    IF lines = <<>> THEN acc
    ELSE LET idx == Head(lines)[1] - 1
             value == Head(lines)[2]
         IN  NumberedLines(Tail(lines), keys,
                 IF 0 <= idx /\ idx < Len(keys)
                 THEN DictUpdate(acc, [k \in {keys[idx + 1]} |-> value])
                 ELSE acc)

parse_numbered_response(raw, keys) ==
    IF raw.kind = "numbered" THEN NumberedLines(raw.body, keys, EmptyDict)
    ELSE EmptyDict

\* ------------------------------------------------------------------------
\* Program constants of translate.py
\* ------------------------------------------------------------------------
CallAttempts == 5
TierAttempts == 3
FormatTiers == 3
RepairRounds == 2
MinCapacity == 10

\* ------------------------------------------------------------------------
\* translate._split_batch: the token estimates (tiktoken) are an input, given
\* as fits (the whole set is within the ceiling, line 267) and capacity (the
\* value the shrinking loop of lines 274-285 ends with)
\* ------------------------------------------------------------------------
Max2(a, b) == IF a >= b THEN a ELSE b
Min2(a, b) == IF a <= b THEN a ELSE b

RECURSIVE Slices(_, _)
Slices(items, capacity) ==
    IF items = <<>> THEN <<>>
    ELSE <<SubSeq(items, 1, Min2(capacity, Len(items)))>>
             \o Slices(SubSeq(items, Min2(capacity, Len(items)) + 1, Len(items)),
                       capacity)

\* only the first slice is kept
FirstSliceOnly(items, fits, capacity) ==
    IF fits THEN <<items>>
    ELSE <<SubSeq(items, 1, Min2(Max2(MinCapacity, capacity), Len(items)))>>

split_batch(items, fits, capacity) ==
    IF fits THEN <<items>>
    ELSE Slices(items, Max2(MinCapacity, capacity))

\* capacities the shrinking loop can end with when the whole set does not fit:
\* a prefix shorter than the set that fits, or below the floor
LoopCapacities(items) == {MinCapacity - 1} \cup (MinCapacity..(Len(items) - 1))

\* ------------------------------------------------------------------------
\* translate._translate_async, lines 333-357: building the tasks
\* ------------------------------------------------------------------------
InitialResult ==
    [fp \in (DOMAIN existing) \cup { all_strings[i].file : i \in DOMAIN all_strings }
        |-> IF fp \in DOMAIN existing THEN existing[fp] ELSE EmptyDict]

InExisting(fp, s) == fp \in DOMAIN existing /\ s \in DOMAIN existing[fp]

AlwaysIncremental(fp, s) == ~InExisting(fp, s)

NeedsTranslation(fp, s) == mode = "full" \/ ~InExisting(fp, s)

to_translate(i) ==
    LET fp == all_strings[i].file
        Needed(s) == NeedsTranslation(fp, s)
    IN  SelectSeq(all_strings[i].strings, Needed)

RECURSIVE BuildTasks(_, _, _)
BuildTasks(i, fits, capacity) ==
    IF i > Len(all_strings) THEN <<>>
    ELSE LET batches == IF to_translate(i) = <<>> THEN <<>>
                        ELSE split_batch(to_translate(i), fits[i], capacity[i])
         IN  [n \in 1..Len(batches) |->
                 [fp |-> all_strings[i].file, b |-> batches[n]]]
                 \o BuildTasks(i + 1, fits, capacity)

\* ------------------------------------------------------------------------
\* One do_batch task: _translate_batch, _fetch_translation and _call_ai
\* between two awaits
\* ------------------------------------------------------------------------
NewTask ==
    [pc |-> "wait_sem", phase |-> "fetch", tier |-> 1, attempt |-> 0,
     net_attempt |-> 0, retry |-> 0, result |-> EmptyDict, ret |-> EmptyDict,
     ladder |-> <<>>]

\* return of _translate_batch / do_batch
Returned(st, value) == [st EXCEPT !.pc = "finished", !.ret = value]

\* an exception leaves _translate_batch and do_batch
Raised(st) == [st EXCEPT !.pc = "raised"]

\* validate_placeholders hands a value that is no string to
\* extract_placeholders, which raises TypeError (prompts.py lines 156-161)
ValidateRaises(res) == \E k \in DOMAIN res : res[k] = NotAString

\* a new _call_ai starts: its first request is in flight
Calling(st) == [st EXCEPT !.pc = "call", !.net_attempt = 0]

\* lines 144-153: entries still mismatched become ""
KeepMismatched(res) == res

FinalCheck(res) ==
    [k \in DOMAIN res |->
        IF k \in DOMAIN validate_placeholders(res) THEN <<>> ELSE res[k]]

\* lines 124-132: top of the repair loop for round retry, with result res
RepairLoop(st, res, retry) ==
    IF ValidateRaises(res) THEN Raised([st EXCEPT !.result = res])
    ELSE IF retry >= RepairRounds
    THEN Returned([st EXCEPT !.result = res], FinalCheck(res))
    ELSE IF validate_placeholders(res) = EmptyDict
         THEN Returned([st EXCEPT !.result = res], res)
         ELSE Calling([st EXCEPT !.phase = "fix", !.result = res,
                                 !.retry = retry])

\* dict.update: every key of the repair reply goes into the result
UpdatedWithEveryKey(res, fixed) == DictUpdate(res, fixed)

\* lines 139-142: fixes overwrite keys already present
ApplyFixed(res, fixed) ==
    [k \in DOMAIN res |-> IF k \in DOMAIN fixed THEN fixed[k] ELSE res[k]]

\* the decoder of a tier
Decode(tier, raw, keys) ==
    CASE tier = 1 -> parse_json_response(raw)
      [] tier = 2 -> parse_xml_response(raw)
      [] tier = 3 -> parse_numbered_response(raw, keys)

Logged(st, outcome) ==
    [st EXCEPT !.ladder = Append(@, [tier |-> st.tier, outcome |-> outcome])]

\* lines 65-105: the format-tier loops, after an attempt decoded nothing
NextTierAtOnce(st) ==
    IF st.tier < FormatTiers
    THEN Calling([st EXCEPT !.tier = @ + 1, !.attempt = 0])
    ELSE Returned(st, EmptyDict)

NextAttempt(st) ==
    IF st.attempt + 1 < TierAttempts
    THEN Calling([st EXCEPT !.attempt = @ + 1])
    ELSE IF st.tier < FormatTiers
         THEN Calling([st EXCEPT !.tier = @ + 1, !.attempt = 0])
         ELSE Returned(st, EmptyDict)

\* the request of _call_ai returned raw
\* a list passes "if result" at lines 68 and 111 and "if fixed" at line 139;
\* validate_placeholders (line 125) and fixed.items() (line 140) then raise
\* AttributeError outside every try block
OnReply(st, raw, keys) ==
    IF st.phase = "fetch"
    THEN LET res == Decode(st.tier, raw, keys)
         IN  IF st.tier = 1 /\ IsList(raw)
             THEN Raised(Logged(st, "parsed"))
             ELSE IF res # EmptyDict
             THEN RepairLoop(Logged(st, "parsed"), res, 0)
             ELSE NextAttempt(Logged(st, "empty"))
    ELSE IF IsList(raw) THEN Raised(st)
    ELSE RepairLoop(st, ApplyFixed(st.result, parse_json_response(raw)),
                    st.retry + 1)

\* _call_ai raised: lines 71-73, 84-86, 98-100 inside a format tier,
\* lines 136-138 inside a repair round
ExhaustionConsumesAttempt(st) ==
    IF st.phase = "fetch"
    THEN NextAttempt(Logged(st, "raised"))
    ELSE Returned(st, FinalCheck(st.result))

OnCallExhausted(st) ==
    IF st.phase = "fetch"
    THEN Returned(Logged(st, "raised"), EmptyDict)
    ELSE Returned(st, FinalCheck(st.result))

\* every failure is followed by a sleep and one more request
RetriesWithoutEnd(st) == [st EXCEPT !.pc = "sleep"]

\* the request of _call_ai raised: sleep and retry, or re-raise
OnError(st) ==
    IF st.net_attempt < CallAttempts - 1
    THEN [st EXCEPT !.pc = "sleep"]
    ELSE OnCallExhausted(st)

\* ------------------------------------------------------------------------
\* What the remote model may answer to a request of task t
\* ------------------------------------------------------------------------
Faithful(k) == <<"Z">> \o k
Mangled(k) == <<"Z", "{", "x", "}">>
Stray == <<"Q">>

FileStrings(fp) ==
    UNION { { all_strings[i].strings[j] : j \in DOMAIN all_strings[i].strings }
              : i \in { n \in DOMAIN all_strings : all_strings[n].file = fp } }

BatchKeys(t) == { tasks[t].b[j] : j \in DOMAIN tasks[t].b }

\* a key the batch of t was not asked for: one of another batch of the same
\* file when there is one
ForeignKey(t) ==
    LET others == FileStrings(tasks[t].fp) \ BatchKeys(t)
    IN  IF others = {} THEN Stray ELSE CHOOSE k \in others : TRUE

\* what a reply carries, for each shape the remote may give it
DictBody(t, shape) ==
    LET keys == BatchKeys(t)
        first == tasks[t].b[1]
        faithful == [k \in keys |-> Faithful(k)]
    IN  CASE shape = "faithful" -> faithful
          [] shape = "blank" -> [k \in keys |-> <<>>]
          [] shape = "mangle_first" ->
                 [k \in keys |-> IF k = first THEN Mangled(k) ELSE Faithful(k)]
          [] shape = "mangle_all" -> [k \in keys |-> Mangled(k)]
          [] shape = "partial" -> [k \in {first} |-> Faithful(k)]
          [] shape = "extra" ->
                 DictUpdate(faithful, [k \in {ForeignKey(t)} |-> <<"Z", "Z">>])
          [] shape = "bad_value" ->
                 [k \in keys |-> IF k = first THEN NotAString ELSE Faithful(k)]
          [] shape \in {"none", "not_a_dict"} -> EmptyDict

NumberedBody(t, shape) ==
    LET b == tasks[t].b
    IN  CASE shape = "faithful" -> [i \in 1..Len(b) |-> <<i, Faithful(b[i])>>]
          [] shape = "mangle_first" ->
                 [i \in 1..Len(b) |->
                     <<i, IF i = 1 THEN Mangled(b[i]) ELSE Faithful(b[i])>>]
          [] shape = "extra" -> <<<<Len(b) + 1, <<"Z">>>>>>

DictShapes ==
    {"faithful", "blank", "mangle_first", "mangle_all", "partial", "extra", "none"}
NumberedShapes == {"faithful", "mangle_first", "extra"}
\* json.loads alone can give these
JsonOnlyShapes == {"not_a_dict", "bad_value"}

\* an outcome of one request: the request raises, or returns text of some
\* kind and shape
Error == [kind |-> "error", shape |-> "none"]
J == [kind |-> "junk", shape |-> "none"]
Json(shape) == [kind |-> "json", shape |-> shape]
Xml(shape) == [kind |-> "xml", shape |-> shape]

Outcomes ==
    {Error, J}
    \cup { [kind |-> k, shape |-> sh] : k \in {"json", "xml"}, sh \in DictShapes }
    \cup { Json(sh) : sh \in JsonOnlyShapes }
    \cup { [kind |-> "numbered", shape |-> sh] : sh \in NumberedShapes }

ReplyOf(t, o) ==
    CASE o.kind = "junk" -> Junk
      [] o.kind \in {"json", "xml"} ->
             [kind |-> o.kind,
              form |-> IF o.shape = "not_a_dict" THEN "list" ELSE "dict",
              body |-> DictBody(t, o.shape)]
      [] o.kind = "numbered" ->
             [kind |-> "numbered", form |-> "dict",
              body |-> NumberedBody(t, o.shape)]

\* the outcomes the remote may give the request task t has in flight; a
\* script that has run out answers faithfully
NextOutcomes(t) ==
    IF remote_mode = "any" THEN Outcomes
    ELSE IF remote_script[t] # <<>> THEN {Head(remote_script[t])}
    ELSE {Json("faithful")}

Consumed(t) ==
    remote_script' =
        IF remote_mode = "scripted" /\ remote_script[t] # <<>>
        THEN [remote_script EXCEPT ![t] = Tail(@)]
        ELSE remote_script

\* the scripts of a scripted run
Scripts ==
    { <<Json("faithful")>>,
      <<Error, Json("extra")>>,
      <<Error, Error, Error, Error, Error>>,
      <<J, J, J, J, J, J, J, J, J>>,
      <<Json("mangle_first"), Error, Json("faithful")>>,
      <<Json("not_a_dict")>> }

\* ------------------------------------------------------------------------
\* Actions of a translation run
\* ------------------------------------------------------------------------
Tasks == DOMAIN tasks

\* lines 333-361: copy the existing map, plan the batches, create the tasks
Start ==
    /\ run_pc = "init"
    /\ \E fits \in [DOMAIN all_strings -> BOOLEAN] :
       \E capacity \in [DOMAIN all_strings -> MinCapacity - 1 .. MinCapacity] :
          /\ \A i \in DOMAIN all_strings :
                 ~fits[i] => capacity[i] \in LoopCapacities(to_translate(i))
          /\ \A i \in DOMAIN all_strings :
                 fits[i] => capacity[i] = MinCapacity
          /\ tasks' = BuildTasks(1, fits, capacity)
    /\ result' = InitialResult
    /\ semaphore' = concurrency
    /\ holders' = {}
    /\ task_state' = [t \in DOMAIN tasks' |-> NewTask]
    /\ completed' = <<>>
    /\ pbar_current' = 0
    /\ fail_count' = 0
    /\ run_pc' = IF tasks' = <<>> THEN "done" ELSE "merging"
    /\ remote_script' \in IF remote_mode = "any"
                          THEN {[t \in DOMAIN tasks' |-> <<>>]}
                          ELSE [DOMAIN tasks' -> Scripts]
    /\ UNCHANGED <<inVars, notTr, remote_mode>>

\* lines 353-356: the "async with semaphore" block is left when, and only
\* when, _translate_batch has returned; gives <<semaphore value, holders>>
GateLeakedOnFailure(value, held, t, new) ==
    IF new.pc = "raised" \/ (new.pc = "finished" /\ new.ret # EmptyDict)
    THEN <<value + 1, held \ {t}>>
    ELSE <<value, held>>

GateReleasedWhileSleeping(value, held, t, new) ==
    IF new.pc \in {"finished", "raised", "sleep"} /\ t \in held
    THEN <<value + 1, held \ {t}>>
    ELSE <<value, held>>

gate_after(value, held, t, new) ==
    IF new.pc \in {"finished", "raised"}
    THEN <<value + 1, held \ {t}>>
    ELSE <<value, held>>

\* the task moves to new; when _translate_batch has returned the task is
\* complete and as_completed hands it to the merge loop
Transit(t, new) ==
    /\ task_state' = [task_state EXCEPT ![t] = new]
    /\ semaphore' = gate_after(semaphore, holders, t, new)[1]
    /\ holders' = gate_after(semaphore, holders, t, new)[2]
    /\ completed' = IF new.pc \in {"finished", "raised"}
                    THEN Append(completed, t)
                    ELSE completed
    /\ UNCHANGED <<inVars, notTr, run_pc, result, tasks, pbar_current,
                   fail_count, remote_mode>>

\* line 353: "async with semaphore", then the first request of the JSON tier
AcquireWhenever(t) ==
    /\ task_state[t].pc = "wait_sem"
    /\ semaphore' = semaphore - 1

AcquireGuarded(t) ==
    /\ task_state[t].pc = "wait_sem"
    /\ semaphore > 0
    /\ semaphore' = semaphore - 1

Acquire(t) ==
    /\ run_pc = "merging"
    /\ AcquireGuarded(t)
    /\ holders' = holders \cup {t}
    /\ task_state' = [task_state EXCEPT ![t] = Calling(@)]
    /\ UNCHANGED <<inVars, notTr, run_pc, result, tasks, completed,
                   pbar_current, fail_count, remoteVars>>

\* line 32 returns
ReplyArrives(t) ==
    /\ task_state[t].pc = "call"
    /\ \E o \in NextOutcomes(t) \ {Error} :
           Transit(t, OnReply(task_state[t], ReplyOf(t, o), tasks[t].b))
    /\ Consumed(t)

\* line 32 raises
RequestFails(t) ==
    /\ task_state[t].pc = "call"
    /\ Error \in NextOutcomes(t)
    /\ Transit(t, OnError(task_state[t]))
    /\ Consumed(t)

\* line 47: the backoff sleep ends, the next request goes out
Wake(t) ==
    /\ task_state[t].pc = "sleep"
    /\ Transit(t, [task_state[t] EXCEPT !.pc = "call", !.net_attempt = @ + 1])
    /\ UNCHANGED remote_script

\* lines 364-373: one turn of the as_completed loop; after the last one the
\* run returns
MergeTranslations(res, fp, translations) ==
    [res EXCEPT ![fp] = DictUpdate(@, translations)]

FailureNotCounted(n) == n

count_failure(n) == n + 1

Merge ==
    /\ run_pc = "merging"
    /\ completed # <<>>
    /\ task_state[Head(completed)].pc = "finished"
    /\ LET t == Head(completed)
           fp == tasks[t].fp
           translations == task_state[t].ret
       IN  /\ IF translations # EmptyDict
              THEN /\ result' = MergeTranslations(result, fp, translations)
                   /\ UNCHANGED fail_count
              ELSE /\ fail_count' = count_failure(fail_count)
                   /\ UNCHANGED result
           /\ task_state' = [task_state EXCEPT ![t].pc = "merged"]
    /\ completed' = Tail(completed)
    /\ pbar_current' = pbar_current + 1
    /\ run_pc' = IF pbar_current' = Len(tasks) THEN "done" ELSE "merging"
    /\ UNCHANGED <<inVars, notTr, tasks, semaphore, holders, remoteVars>>

\* line 365: "await coro" raises what the task raised; the exception leaves
\* _translate_async and asyncio.run (line 390), which cancels the tasks still
\* running; save_json (line 394) is not reached
Cancelled(st) ==
    IF st.pc \in {"wait_sem", "call", "sleep"} THEN [st EXCEPT !.pc = "cancelled"]
    ELSE st

Abort ==
    /\ run_pc = "merging"
    /\ completed # <<>>
    /\ task_state[Head(completed)].pc = "raised"
    /\ run_pc' = "aborted"
    /\ task_state' = [t \in DOMAIN task_state |-> Cancelled(task_state[t])]
    /\ semaphore' = semaphore + Cardinality(holders)
    /\ holders' = {}
    /\ UNCHANGED <<inVars, notTr, result, tasks, completed,
                   pbar_current, fail_count, remoteVars>>

NextTranslate ==
    \/ Start
    \/ \E t \in Tasks : Acquire(t)
    \/ \E t \in Tasks : ReplyArrives(t)
    \/ \E t \in Tasks : RequestFails(t)
    \/ \E t \in Tasks : Wake(t)
    \/ Merge
    \/ Abort

\* ------------------------------------------------------------------------
\* Specification SpecBatch: one file, one batch, every kind of reply
\* ------------------------------------------------------------------------
SaveIt == <<"S", "{", "}">>
ByName == <<"{", "n", "}", "S">>
SmallFile == [file |-> "f.rs", strings |-> <<SaveIt, ByName>>]

InitBatch ==
    /\ IdleValidate
    /\ IdleReplace
    /\ IdleEntry
    /\ IdleSplit
    /\ IdleConsistency
    /\ IdlePure
    /\ all_strings = <<SmallFile>>
    /\ existing \in { EmptyDict,
                      [fp \in {"f.rs"} |-> [k \in {SaveIt} |-> <<"O", "{", "}">>]],
                      [fp \in {"f.rs"} |-> [k \in {SaveIt} |-> <<>>]] }
    /\ mode \in {"incremental", "full"}
    /\ concurrency = 1
    /\ run_pc = "init"
    /\ result = EmptyDict
    /\ tasks = <<>>
    /\ semaphore = 0
    /\ holders = {}
    /\ task_state = <<>>
    /\ completed = <<>>
    /\ pbar_current = 0
    /\ fail_count = 0
    /\ remote_mode = "any"
    /\ remote_script = <<>>

SpecBatch == InitBatch /\ [][NextTranslate]_vars

\* ------------------------------------------------------------------------
\* Specification SpecRun: two files, one of them large enough to be split
\* ------------------------------------------------------------------------
\* strings extracted from the large file
BigFileSize == 11
\* largest ai_cfg.concurrency drawn
MaxConcurrency == 2

Letters == <<"a", "b", "c", "d", "e", "f", "g", "h", "i", "j", "k", "l", "m",
             "o", "p">>
BigFile == [file |-> "big.rs", strings |-> [i \in 1..BigFileSize |-> <<Letters[i]>>]]
OtherFile == [file |-> "g.rs", strings |-> <<SaveIt>>]

InitRun ==
    /\ IdleValidate
    /\ IdleReplace
    /\ IdleEntry
    /\ IdleSplit
    /\ IdleConsistency
    /\ IdlePure
    /\ all_strings = <<BigFile, OtherFile>>
    /\ existing = EmptyDict
    /\ mode = "incremental"
    /\ concurrency \in 1..MaxConcurrency
    /\ run_pc = "init"
    /\ result = EmptyDict
    /\ tasks = <<>>
    /\ semaphore = 0
    /\ holders = {}
    /\ task_state = <<>>
    /\ completed = <<>>
    /\ pbar_current = 0
    /\ fail_count = 0
    /\ remote_mode = "scripted"
    /\ remote_script = <<>>

SpecRun == InitRun /\ [][NextTranslate]_vars

\* the event loop of asyncio.run (line 390) keeps running whatever is
\* ready: a task waiting at a free gate, a request that returns or raises, a
\* sleep that ends, the as_completed loop with a completed task at hand
SpecRunLive == SpecRun /\ WF_vars(NextTranslate)

\* ------------------------------------------------------------------------
\* replace.py: characters
\* ------------------------------------------------------------------------
Quote == "\""
Backslash == "\\"
LF == "LF"
CR == "CR"
TAB == "TAB"
\* U+3001, U+FF0C and U+FF1B: the target-language separators
IdeographicComma == "U+3001"
FullwidthComma == "FW,"
FullwidthSemicolon == "FW;"

LowerLetters ==
    {"a", "b", "c", "d", "e", "f", "g", "h", "i", "j", "k", "l", "m", "n", "o",
     "p", "q", "r", "s", "t", "u", "v", "w", "x", "y", "z"}
UpperLetters == {"O", "Q", "S"}
\* letters of the target language
TargetLetters == {"Z"}
Digits == {"0", "1", "2"}
\* \s
Whitespace == {" ", LF, CR, TAB}
\* \w
WordChars == LowerLetters \cup UpperLetters \cup TargetLetters \cup Digits \cup {"_"}
\* the ranges \x20-\x2f \x3a-\x40 \x5b-\x60 \x7b-\x7e of _PUNCT_ONLY
AsciiPunct ==
    {" ", "!", Quote, "#", "%", "(", ")", ",", "-", ".", "/", ":", ";", "?",
     "[", Backslash, "]", "_", "{", "}"}

\* ------------------------------------------------------------------------
\* utils.normalize_fullwidth: full-width forms become their ASCII characters
\* ------------------------------------------------------------------------
HalfWidth(c) ==
    CASE c = "FW{" -> "{"
      [] c = "FW}" -> "}"
      [] c = FullwidthComma -> ","
      [] c = FullwidthSemicolon -> ";"
      [] OTHER -> c

normalize_fullwidth(text) == [i \in 1..Len(text) |-> HalfWidth(text[i])]

\* ------------------------------------------------------------------------
\* replace._is_positional / replace._check_placeholders
\* ------------------------------------------------------------------------
\* only the percent forms are positional
PercentOnly(ph) == Head(ph) = "%"

replace_is_positional(ph) ==
    IF Head(ph) = "%" THEN TRUE
    ELSE LET inner == SubSeq(ph, 2, Len(ph) - 1)
         IN  inner = <<>> \/ Head(inner) = ":"

ReplaceIsPos(ph) == replace_is_positional(ph)
ReplaceIsNamed(ph) == ~replace_is_positional(ph)

AcceptAnyPlaceholders(src, dst) == TRUE

check_placeholders(src, dst) ==
    IF SelectSeq(src, ReplaceIsPos) # SelectSeq(dst, ReplaceIsPos) THEN FALSE
    ELSE sorted(SelectSeq(src, ReplaceIsNamed)) = sorted(SelectSeq(dst, ReplaceIsNamed))

\* ------------------------------------------------------------------------
\* replace._escape_for_rust_source
\* ------------------------------------------------------------------------
\* no suffix makes an escape sequence
NoEscapes == {}

RUST_ESCAPES == {"n", "r", "t", "x", "0", "u", Backslash, Quote, "'"}

RECURSIVE EscapeFrom(_, _)
EscapeFrom(value, i) ==
    IF i > Len(value) THEN <<>>
    ELSE LET ch == value[i]
         IN  CASE ch = LF -> <<Backslash, "n">> \o EscapeFrom(value, i + 1)
               [] ch = CR -> <<Backslash, "r">> \o EscapeFrom(value, i + 1)
               [] ch = TAB -> <<Backslash, "t">> \o EscapeFrom(value, i + 1)
               [] ch = Backslash ->
                      IF i + 1 <= Len(value) /\ value[i + 1] \in RUST_ESCAPES
                      THEN <<Backslash, value[i + 1]>> \o EscapeFrom(value, i + 2)
                      ELSE <<Backslash, Backslash>> \o EscapeFrom(value, i + 1)
               [] ch = Quote -> <<Backslash, Quote>> \o EscapeFrom(value, i + 1)
               [] OTHER -> <<ch>> \o EscapeFrom(value, i + 1)

escape_for_rust_source(value) == EscapeFrom(value, 1)

\* ------------------------------------------------------------------------
\* replace._filter_replacements; a dict is kept as its sequence of
\* <<original, value>> items, in order
\* ------------------------------------------------------------------------
\* _PUNCT_ONLY.match
PUNCT_ONLY(text) ==
    /\ text # <<>>
    /\ \A i \in DOMAIN text : text[i] \in Whitespace \cup AsciiPunct

\* _ASCII_IDENTIFIER.match; "$" also matches before a final newline
ASCII_IDENTIFIER(text) ==
    LET core == IF text # <<>> /\ text[Len(text)] = LF
                THEN SubSeq(text, 1, Len(text) - 1) ELSE text
    IN  /\ core # <<>>
        /\ core[1] \in LowerLetters
        /\ \A i \in 2..Len(core) : core[i] \in LowerLetters \cup Digits \cup {"_", "-"}

\* only the placeholder check is made
KeepsWhateverOriginal(original, new_value, file_path, dnt, global_dnt) ==
    IF new_value = <<>> THEN TRUE
    ELSE check_placeholders(extract_placeholders(original),
                            extract_placeholders(new_value))

\* lines 136-164: is the item kept
keeps(original, new_value, file_path, dnt, global_dnt) ==
    IF new_value = <<>> THEN TRUE
    ELSE IF original \in global_dnt THEN FALSE
    ELSE IF <<file_path, original>> \in dnt THEN FALSE
    ELSE IF PUNCT_ONLY(original) THEN FALSE
    ELSE IF ASCII_IDENTIFIER(original) THEN FALSE
    ELSE check_placeholders(extract_placeholders(original),
                            extract_placeholders(new_value))

filter_replacements(replacements, file_path, dnt, global_dnt) ==
    LET Kept(item) == keeps(item[1], item[2], file_path, dnt, global_dnt)
    IN  SelectSeq(replacements, Kept)

\* ------------------------------------------------------------------------
\* replace._find_protected_ranges: the matches of _PROTECTED_RE, as
\* <<start, end>> with start <= idx < end, positions counted from 1
\* ------------------------------------------------------------------------
At(content, i) == IF i >= 1 /\ i <= Len(content) THEN content[i] ELSE "EOF"

\* number of "#" from position i on
RECURSIVE HashRun(_, _)
HashRun(content, i) ==
    IF At(content, i) = "#" THEN 1 + HashRun(content, i + 1) ELSE 0

\* first j >= from with a quote at j followed by k "#", or 0
RECURSIVE RawClose(_, _, _)
RawClose(content, from, k) ==
    IF from > Len(content) THEN 0
    ELSE IF content[from] = Quote /\ HashRun(content, from + 1) >= k THEN from
    ELSE RawClose(content, from + 1, k)

\* (?:[^"\\]|\\.)*" from position p: the position of the closing quote, or 0
RECURSIVE QuotedClose(_, _)
QuotedClose(content, p) ==
    IF p > Len(content) THEN 0
    ELSE IF content[p] = Quote THEN p
    ELSE IF content[p] = Backslash
         THEN IF p + 1 <= Len(content) THEN QuotedClose(content, p + 2) ELSE 0
    ELSE QuotedClose(content, p + 1)

\* length of the run of [\w:] from position i on
RECURSIVE NameRun(_, _)
NameRun(content, i) ==
    IF At(content, i) \in WordChars \cup {":"} THEN 1 + NameRun(content, i + 1)
    ELSE 0

\* [^]]*?\)\] from position q: the position of the ")", or 0
RECURSIVE AttrClose(_, _)
AttrClose(content, q) ==
    IF q > Len(content) THEN 0
    ELSE IF content[q] = ")" /\ At(content, q + 1) = "]" THEN q
    ELSE IF content[q] = "]" THEN 0
    ELSE AttrClose(content, q + 1)

\* (?!error\b)
ErrorAhead(content, i) ==
    /\ i + 4 <= Len(content)
    /\ SubSeq(content, i, i + 4) = <<"e", "r", "r", "o", "r">>
    /\ At(content, i + 5) \notin WordChars

\* the end (exclusive) of the match of _PROTECTED_RE that starts at i, or 0
RawByteString(content, i) ==
    LET k == HashRun(content, i + 2)
        close == RawClose(content, i + 3 + k, k)
    IN  IF At(content, i) = "b" /\ At(content, i + 1) = "r" /\ k >= 1
           /\ At(content, i + 2 + k) = Quote /\ close # 0
        THEN close + k + 1 ELSE 0

PlainRawByteString(content, i) ==
    IF At(content, i) = "b" /\ At(content, i + 1) = "r"
       /\ At(content, i + 2) = Quote /\ QuotedClose(content, i + 3) # 0
    THEN QuotedClose(content, i + 3) + 1 ELSE 0

ByteString(content, i) ==
    IF At(content, i) = "b" /\ At(content, i + 1) = Quote
       /\ QuotedClose(content, i + 2) # 0
    THEN QuotedClose(content, i + 2) + 1 ELSE 0

Attribute(content, i) ==
    LET n == NameRun(content, i + 2)
        close == AttrClose(content, i + 3 + n)
    IN  IF At(content, i) = "#" /\ At(content, i + 1) = "["
           /\ ~ErrorAhead(content, i + 2) /\ n >= 1
           /\ At(content, i + 2 + n) = "(" /\ close # 0
        THEN close + 2 ELSE 0

ProtectedMatch(content, i) ==
    IF RawByteString(content, i) # 0 THEN RawByteString(content, i)
    ELSE IF PlainRawByteString(content, i) # 0 THEN PlainRawByteString(content, i)
    ELSE IF ByteString(content, i) # 0 THEN ByteString(content, i)
    ELSE Attribute(content, i)

RECURSIVE ProtectedFrom(_, _)
ProtectedFrom(content, i) ==
    IF i > Len(content) THEN <<>>
    ELSE IF ProtectedMatch(content, i) # 0
         THEN <<<<i, ProtectedMatch(content, i)>>>>
                  \o ProtectedFrom(content, ProtectedMatch(content, i))
    ELSE ProtectedFrom(content, i + 1)

find_protected_ranges(content) == ProtectedFrom(content, 1)

\* ------------------------------------------------------------------------
\* replace._replace_skip_protected; gives <<text, count>>
\* ------------------------------------------------------------------------
\* content.find(old_text, pos), 0 for -1
RECURSIVE Find(_, _, _)
Find(content, old_text, pos) ==
    IF pos + Len(old_text) - 1 > Len(content) THEN 0
    ELSE IF SubSeq(content, pos, pos + Len(old_text) - 1) = old_text THEN pos
    ELSE Find(content, old_text, pos + 1)

InProtected(protected, idx) ==
    \E r \in DOMAIN protected : protected[r][1] <= idx /\ idx < protected[r][2]

RECURSIVE ReplaceFrom(_, _, _, _, _)
ReplaceFrom(content, old_text, new_text, protected, pos) ==
    LET idx == Find(content, old_text, pos)
    IN  IF idx = 0 THEN <<SubSeq(content, pos, Len(content)), 0>>
        ELSE LET rest == ReplaceFrom(content, old_text, new_text, protected,
                                     idx + Len(old_text))
             IN  IF InProtected(protected, idx)
                 THEN <<SubSeq(content, pos, idx - 1) \o old_text \o rest[1],
                        rest[2]>>
                 ELSE <<SubSeq(content, pos, idx - 1) \o new_text \o rest[1],
                        rest[2] + 1>>

replace_skip_protected(content, old_text, new_text, protected) ==
    IF protected = <<>>
    THEN ReplaceFrom(content, old_text, new_text, <<>>, 1)
    ELSE ReplaceFrom(content, old_text, new_text, protected, 1)

\* ------------------------------------------------------------------------
\* replace._sanitize_rust_syntax
\* ------------------------------------------------------------------------
RECURSIVE SkipSpace(_, _)
SkipSpace(content, p) ==
    IF At(content, p) \in Whitespace THEN SkipSpace(content, p + 1) ELSE p

\* (?<=\w")\s*[marks]\s*(?=") at p: the end (exclusive) of the match, or 0
SeparatorMatch(content, p, marks) ==
    LET a == SkipSpace(content, p)
        b == SkipSpace(content, a + 1)
    IN  IF At(content, p - 2) \in WordChars /\ At(content, p - 1) = Quote
           /\ At(content, a) \in marks /\ At(content, b) = Quote
        THEN b ELSE 0

\* pattern.sub(repl, content)
RECURSIVE SubSeparators(_, _, _, _)
SubSeparators(content, p, marks, repl) ==
    IF p > Len(content) THEN <<>>
    ELSE IF SeparatorMatch(content, p, marks) # 0
         THEN repl \o SubSeparators(content, SeparatorMatch(content, p, marks),
                                    marks, repl)
    ELSE <<content[p]>> \o SubSeparators(content, p + 1, marks, repl)

sanitize_rust_syntax(content) ==
    SubSeparators(
        SubSeparators(content, 1, {IdeographicComma, FullwidthComma}, <<",", " ">>),
        1, {FullwidthSemicolon}, <<";", " ">>)

\* ------------------------------------------------------------------------
\* replace._resolve_file_path; a path is the sequence of its components, an
\* absolute path starts with "/", a relative path is taken from the working
\* directory
\* ------------------------------------------------------------------------
is_absolute(p) == p # <<>> /\ Head(p) = "/"

exists(p) == p \in DOMAIN disk

\* root / file_path
Join(root, p) == IF is_absolute(p) THEN p ELSE root \o p

\* root.name
NameOf(root) ==
    IF root = <<>> \/ root = <<"/">> THEN "" ELSE root[Len(root)]

Resolved(p) == [ok |-> TRUE, path |-> p]
NotResolved == [ok |-> FALSE, path |-> <<>>]

\* p.relative_to(name), NotResolved for the ValueError
relative_to(p, name) ==
    IF is_absolute(p) THEN NotResolved
    ELSE IF name = "" THEN Resolved(p)
    ELSE IF p # <<>> /\ Head(p) = name THEN Resolved(Tail(p))
    ELSE NotResolved

resolve_file_path(file_path, root) ==
    LET p == file_path
        rel == relative_to(p, NameOf(root))
    IN  IF is_absolute(p) /\ exists(p) THEN Resolved(p)
        ELSE IF exists(p) THEN Resolved(p)
        ELSE IF exists(Join(root, file_path)) THEN Resolved(Join(root, file_path))
        ELSE IF rel.ok /\ exists(Join(root, rel.path))
             THEN Resolved(Join(root, rel.path))
        ELSE NotResolved

\* ------------------------------------------------------------------------
\* replace.replace_in_source
\* ------------------------------------------------------------------------
\* line 269: the values of the dict normalised, the empty ones left alone
Normalized(raw_replacements) ==
    [i \in DOMAIN raw_replacements |->
        <<raw_replacements[i][1],
          IF raw_replacements[i][2] # <<>>
          THEN normalize_fullwidth(raw_replacements[i][2])
          ELSE raw_replacements[i][2]>>]

Quoted(text) == <<Quote>> \o text \o <<Quote>>

\* lines 274-290: the loop over the filtered pairs, from pair i on
\* steps: the text and the ranges each call of _replace_skip_protected got
RECURSIVE ReplaceItems(_, _, _, _, _, _, _)
ReplaceItems(replacements, i, content, protected, count, log, steps) ==
    IF i > Len(replacements)
    THEN [content |-> content, count |-> count, log |-> log, steps |-> steps]
    ELSE LET original == replacements[i][1]
             new_value == replacements[i][2]
             safe_value == escape_for_rust_source(new_value)
             old_text == Quoted(original)
             new_text == Quoted(safe_value)
             r == replace_skip_protected(content, old_text, new_text, protected)
             new_content == r[1]
             n == r[2]
             called == Append(steps, [content |-> content,
                                      protected |-> protected,
                                      old_text |-> old_text])
         IN  IF new_value = <<>>
             THEN ReplaceItems(replacements, i + 1, content, protected, count,
                               log, steps)
             ELSE IF n > 0
             THEN ReplaceItems(replacements, i + 1, new_content,
                               IF protected # <<>>
                               THEN find_protected_ranges(new_content)
                               ELSE protected,
                               count + n,
                               Append(log, [original |-> original,
                                            new_value |-> new_value,
                                            new_text |-> new_text, n |-> n]),
                               called)
             ELSE ReplaceItems(replacements, i + 1, content, protected, count,
                               log, called)

\* lines 267-290 for one file text
ReplaceInText(content, raw_replacements, file_path) ==
    LET normalized == Normalized(raw_replacements)
        replacements == filter_replacements(normalized, file_path,
                                            do_not_translate,
                                            global_do_not_translate)
        protected == find_protected_ranges(content)
    IN  ReplaceItems(replacements, 1, content, protected, 0, <<>>, <<>>)

Entry == rp_translations[rp_index]

InLoop == rp_pc = "loop" /\ rp_index <= Len(rp_translations)

\* lines 257-260: the file is not found
SkipMissing ==
    /\ InLoop
    /\ ~resolve_file_path(Entry.file, source_root).ok
    /\ missing_files' = Append(missing_files, Entry.file)
    /\ rp_index' = rp_index + 1
    /\ UNCHANGED <<notRp, rpInVars, runVars, disk, rp_pc, total_count,
                   substituted>>

\* lines 262-266: read_text raises OSError
SkipUnreadable ==
    /\ InLoop
    /\ LET fp == resolve_file_path(Entry.file, source_root)
       IN  fp.ok /\ ~disk[fp.path].readable
    /\ rp_index' = rp_index + 1
    /\ UNCHANGED <<notRp, rpInVars, runVars, disk, rp_pc, total_count,
                   missing_files, substituted>>

\* line 263: the bytes of the file are not UTF-8; read_text raises
\* UnicodeDecodeError, a ValueError that "except OSError" does not catch
AbortUndecodable ==
    /\ InLoop
    /\ LET fp == resolve_file_path(Entry.file, source_root)
       IN  fp.ok /\ disk[fp.path].readable /\ ~disk[fp.path].decodable
    /\ rp_pc' = "aborted"
    /\ UNCHANGED <<notRp, rpInVars, runVars, disk, rp_index, total_count,
                   missing_files, substituted>>

\* line 294: write_text raises OSError outside every try block
AbortUnwritable ==
    /\ InLoop
    /\ LET fp == resolve_file_path(Entry.file, source_root)
       IN  /\ fp.ok
           /\ disk[fp.path].readable
           /\ disk[fp.path].decodable
           /\ ~disk[fp.path].writable
           /\ ReplaceInText(disk[fp.path].text, Entry.items, Entry.file).count > 0
    /\ rp_pc' = "aborted"
    /\ UNCHANGED <<notRp, rpInVars, runVars, disk, rp_index, total_count,
                   missing_files, substituted>>

\* the punctuation repair is made whatever the count
RepairedAnyway(text, done) == sanitize_rust_syntax(done.content)

\* lines 292-294: the text of the file after the loop over the pairs
text_after(text, done) ==
    IF done.count > 0 THEN sanitize_rust_syntax(done.content) ELSE text

\* lines 262-296: the file is read, rewritten and, if anything was replaced,
\* repaired and written back
RewriteFile ==
    /\ InLoop
    /\ LET fp == resolve_file_path(Entry.file, source_root)
       IN  /\ fp.ok
           /\ disk[fp.path].readable
           /\ disk[fp.path].decodable
           /\ LET done == ReplaceInText(disk[fp.path].text, Entry.items,
                                        Entry.file)
              IN  /\ done.count > 0 => disk[fp.path].writable
                  /\ disk' = [disk EXCEPT ![fp.path].text =
                                  text_after(disk[fp.path].text, done)]
                  /\ total_count' = total_count + done.count
                  /\ substituted' = substituted \cup
                         { [file |-> Entry.file,
                            original |-> done.log[k].original,
                            new_value |-> done.log[k].new_value,
                            new_text |-> done.log[k].new_text,
                            n |-> done.log[k].n] : k \in DOMAIN done.log }
                  /\ calls' = calls \o done.steps
    /\ rp_index' = rp_index + 1
    /\ UNCHANGED <<notRp, rpInVars, rp_run, first_disk, persisted, rp_pc,
                   missing_files>>

\* lines 298-304
ReturnReplace ==
    /\ rp_pc = "loop"
    /\ rp_index > Len(rp_translations)
    /\ rp_pc' = "returned"
    /\ UNCHANGED <<notRp, rpInVars, runVars, disk, rp_index, total_count,
                   missing_files, substituted>>

\* the command is run a second time on the files the first run left, with
\* the same translation dict
RunAgain ==
    /\ rp_pc = "returned"
    /\ rp_run = 1
    /\ rp_run' = 2
    /\ first_disk' = disk
    /\ rp_pc' = "loop"
    /\ rp_index' = 1
    /\ total_count' = 0
    /\ missing_files' = <<>>
    /\ UNCHANGED <<notRp, rpInVars, disk, substituted, persisted, calls>>

\* nothing is removed
CleanupKeepsAll(data, missing) == data

\* lines 307-321: the dict that is in the file afterwards
cleanup_translation_json(data, missing) ==
    SelectSeq(data, LAMBDA e : \A m \in DOMAIN missing : missing[m] # e.file)

\* replace.run, line 332, after replace_in_source returned
Cleanup ==
    /\ rp_pc = "returned"
    /\ persisted' = cleanup_translation_json(persisted, missing_files)
    /\ rp_pc' = "cleaned"
    /\ UNCHANGED <<notRp, rpInVars, disk, rp_index, total_count,
                   missing_files, substituted, rp_run, first_disk, calls>>

NextReplace ==
    \/ SkipMissing
    \/ SkipUnreadable
    \/ AbortUndecodable
    \/ AbortUnwritable
    \/ RewriteFile
    \/ ReturnReplace
    \/ RunAgain
    \/ Cleanup

\* ------------------------------------------------------------------------
\* Specification SpecReplace: replace_in_source on a small source tree
\* ------------------------------------------------------------------------
\* most pairs one file of the translation dict holds
MaxItems == 2

SourceRoot == <<"/", "w", "zed">>

\* t("S{}", "S{n}"); b"S{}"; #[k("Q")] e("Q"<U+3001>"ok")
CrateText ==
    <<"t", "(">> \o Quoted(<<"S", "{", "}">>) \o <<",", " ">>
    \o Quoted(<<"S", "{", "n", "}">>) \o <<")", ";", " ", "b">>
    \o Quoted(<<"S", "{", "}">>) \o <<";", " ", "#", "[", "k", "(">>
    \o Quoted(<<"Q">>) \o <<")", "]", " ", "e", "(">> \o Quoted(<<"Q">>)
    \o <<IdeographicComma>> \o Quoted(<<"o", "k">>) \o <<")">>

\* p("S{}", "Q")
LocalText ==
    <<"p", "(">> \o Quoted(<<"S", "{", "}">>) \o <<",", " ">>
    \o Quoted(<<"Q">>) \o <<")">>

CrateFile == <<"/", "w", "zed", "crates", "a.rs">>
LockedFile == <<"/", "w", "zed", "crates", "locked.rs">>
BinaryFile == <<"/", "w", "zed", "crates", "binary.rs">>
ReadOnlyFile == <<"/", "w", "zed", "crates", "readonly.rs">>
LocalFile == <<"local.rs">>
RawFile == <<"/", "w", "zed", "crates", "raw.rs">>

\* u("Q", "O") r#"{"Q"}"# #[d = "Q"]
RawText ==
    <<"u", "(">> \o Quoted(<<"Q">>) \o <<",", " ">> \o Quoted(<<"O">>)
    \o <<")", " ", "r", "#", Quote, "{">> \o Quoted(<<"Q">>)
    \o <<"}", Quote, "#", " ", "#", "[", "d", " ", "=", " ">>
    \o Quoted(<<"Q">>) \o <<"]">>

TabFile == <<"/", "w", "zed", "crates", "tab.rs">>

\* t("Qb", "O"): the pattern of a byte string matches b", " in it
TabText ==
    <<"t", "(">> \o Quoted(<<"Q", "b">>) \o <<",", " ">> \o Quoted(<<"O">>)
    \o <<")">>

File(text) ==
    [text |-> text, readable |-> TRUE, decodable |-> TRUE, writable |-> TRUE]

SourceTree ==
    [p \in {CrateFile, LockedFile, BinaryFile, ReadOnlyFile, LocalFile,
             RawFile, TabFile} |->
        CASE p = CrateFile -> File(CrateText)
          [] p = RawFile -> File(RawText)
          [] p = TabFile -> File(TabText)
          [] p = LockedFile -> [File(<<>>) EXCEPT !.readable = FALSE]
          [] p = BinaryFile -> [File(<<>>) EXCEPT !.decodable = FALSE]
          [] p = ReadOnlyFile -> [File(LocalText) EXCEPT !.writable = FALSE]
          [] OTHER -> File(LocalText)]

\* the file names a translation dict may carry for this tree
FileNames ==
    { CrateFile, <<"crates", "a.rs">>, <<"zed", "crates", "a.rs">>, LocalFile,
      <<"crates", "locked.rs">>, <<"crates", "binary.rs">>,
      <<"crates", "readonly.rs">>, <<"crates", "raw.rs">>, <<"gone.rs">> }

Originals == { <<"S", "{", "}">>, <<"S", "{", "n", "}">>, <<"Q">>, <<"o", "k">> }

Values ==
    { <<>>, <<"Z", "{", "}">>, <<"Z", "{", "n", "}">>, <<"Z">>,
      <<"Z", "FW{", "FW}">> }

\* the item lists of a dict: no key twice
ItemSeqs(n) ==
    { s \in UNION { [1..k -> Originals \X Values] : k \in 1..n } :
        \A i, j \in DOMAIN s : i # j => s[i][1] # s[j][1] }

\* dicts with a pair whose original is the separator ", ", and one with a
\* pair whose original is an identifier as well
PunctSeqs ==
    { <<<<<<",", " ">>, <<"Z">>>>>>,
      <<<<<<",", " ">>, <<"Z">>>>, <<<<"S", "{", "}">>, <<"Z", "{", "}">>>>>>,
      <<<<<<",", " ">>, <<"Z">>>>, <<<<"o", "k">>, <<"Z">>>>,
        <<<<"S", "{", "}">>, <<"Z", "{", "}">>>>>> }

\* dicts in which a translation is the text of an original
ChainSeqs ==
    LET pairs == {<<"Q">>, <<"O">>} \X {<<"Q">>, <<"O">>, <<"Z">>}
    IN  { s \in [1..1 -> pairs] \cup [1..2 -> pairs] :
            \A i, j \in DOMAIN s : i # j => s[i][1] # s[j][1] }

\* dicts for the file whose text the byte string pattern matches in part
TabSeqs ==
    { <<<<<<"Q", "b">>, <<"Z">>>>>>,
      <<<<<<"O">>, <<"Z">>>>>>,
      <<<<<<"Q", "b">>, <<"Z">>>>, <<<<"O">>, <<"Z">>>>>> }

\* a dict whose first translation ends in the letter b
ByteSeqs ==
    { <<<<<<"Q">>, <<"b">>>>, <<<<"O">>, <<"Z">>>>>> }

\* the first entry of the dict: any file name with one pair, the crate file
\* under its root-relative name with up to MaxItems pairs
FirstEntries ==
    { [file |-> f, items |-> items] : f \in FileNames, items \in ItemSeqs(1) }
    \cup { [file |-> <<"crates", "raw.rs">>, items |-> items] :
             items \in ChainSeqs }
    \cup { [file |-> <<"crates", "a.rs">>, items |-> items] :
             items \in PunctSeqs }
    \cup { [file |-> <<"crates", "tab.rs">>, items |-> items] :
             items \in TabSeqs }
    \cup { [file |-> <<"crates", "raw.rs">>, items |-> items] :
             items \in ByteSeqs }
    \cup { [file |-> <<"crates", "a.rs">>, items |-> items] :
             items \in ItemSeqs(MaxItems) }

InitReplace ==
    /\ IdleValidate
    /\ IdleTranslate
    /\ IdleEntry
    /\ IdleSplit
    /\ IdleConsistency
    /\ IdlePure
    /\ source_root = SourceRoot
    /\ disk = SourceTree
    /\ \E first \in FirstEntries :
          LET f == first.file
          IN  rp_translations \in
                  {<<first>>}
                  \cup (IF f = LocalFile THEN {}
                        ELSE {<<first, [file |-> LocalFile,
                                        items |-> <<<<<<"S", "{", "}">>,
                                                      <<"Z", "{", "}">>>>>>]>>})
    /\ \E rules \in { <<{}, {}>>, <<{<<<<"crates", "a.rs">>, <<"Q">>>>}, {}>>,
                       <<{}, {<<"Q">>}>> } :
          /\ do_not_translate = rules[1]
          /\ global_do_not_translate = rules[2]
    /\ rp_pc = "loop"
    /\ rp_index = 1
    /\ total_count = 0
    /\ missing_files = <<>>
    /\ substituted = {}
    /\ rp_run = 1
    /\ first_disk = <<>>
    /\ persisted = rp_translations
    /\ calls = <<>>

SpecReplace == InitReplace /\ [][NextReplace]_vars

\* ------------------------------------------------------------------------
\* utils.AIConfig and the entry points that use the remote API
\* ------------------------------------------------------------------------
\* str.isdigit and int() on the values drawn for AI_CONCURRENCY
IntOf == [s \in {"0", "3", "10"} |-> CASE s = "0" -> 0 [] s = "3" -> 3
                                       [] OTHER -> 10]
isdigit(s) == s \in DOMAIN IntOf

\* AIConfig.__post_init__, lines 35-46: the command line first, then the
\* environment, then the default
post_init(args, environ) ==
    LET raw == IF environ.AI_CONCURRENCY = "unset" THEN "10"
               ELSE environ.AI_CONCURRENCY
    IN  [api_key |-> IF args.api_key = "" THEN environ.AI_API_KEY
                     ELSE args.api_key,
         concurrency |-> IF args.concurrency <= 0
                         THEN IF isdigit(raw) THEN IntOf[raw] ELSE 10
                         ELSE args.concurrency]

\* AIConfig.validate, lines 48-54: does it raise SystemExit
NeverRaises(cfg) == FALSE

validate_raises(cfg) == cfg.api_key = ""

\* what an entry point does, in order: AIConfig.validate, work that uses no
\* network, the requests to the remote API
\*   translate_all (translate.py 385, 390)
\*   scan_files (scan.py 229, 230)
\*   scan_incremental (scan.py 275, 277-296, 299)
\*   _run_pipeline (cli.py 279, 282-300, then translate_all)
Steps(command) ==
    CASE command = "translate" -> <<"validate", "remote">>
      [] command = "scan" -> <<"validate", "remote">>
      [] command = "scan_incremental" -> <<"validate", "local", "remote">>
      [] command = "pipeline" -> <<"validate", "local", "validate", "remote">>

Step == Steps(en_command)[en_step]

Construct ==
    /\ en_pc = "construct"
    /\ ai_cfg' = post_init(en_args, en_environ)
    /\ en_pc' = "steps"
    /\ UNCHANGED <<notEn, enInVars, en_step, remote_calls>>

ValidateAborts ==
    /\ en_pc = "steps"
    /\ Step = "validate"
    /\ validate_raises(ai_cfg)
    /\ en_pc' = "fatal"
    /\ UNCHANGED <<notEn, enInVars, ai_cfg, en_step, remote_calls>>

ValidatePasses ==
    /\ en_pc = "steps"
    /\ Step = "validate"
    /\ ~validate_raises(ai_cfg)
    /\ en_step' = en_step + 1
    /\ UNCHANGED <<notEn, enInVars, ai_cfg, en_pc, remote_calls>>

LocalStep ==
    /\ en_pc = "steps"
    /\ Step = "local"
    /\ en_step' = en_step + 1
    /\ UNCHANGED <<notEn, enInVars, ai_cfg, en_pc, remote_calls>>

RemoteCall ==
    /\ en_pc = "steps"
    /\ Step = "remote"
    /\ remote_calls < en_work
    /\ remote_calls' = remote_calls + 1
    /\ UNCHANGED <<notEn, enInVars, ai_cfg, en_pc, en_step>>

Finish ==
    /\ en_pc = "steps"
    /\ Step = "remote"
    /\ remote_calls = en_work
    /\ en_pc' = "done"
    /\ UNCHANGED <<notEn, enInVars, ai_cfg, en_step, remote_calls>>

NextEntry ==
    \/ Construct
    \/ ValidateAborts
    \/ ValidatePasses
    \/ LocalStep
    \/ RemoteCall
    \/ Finish

\* ------------------------------------------------------------------------
\* Specification SpecEntry: every entry point under every configuration
\* ------------------------------------------------------------------------
\* most remote requests a command has to make
MaxWork == 2

Commands == {"translate", "scan", "scan_incremental", "pipeline"}

InitEntry ==
    /\ IdleValidate
    /\ IdleTranslate
    /\ IdleReplace
    /\ IdleSplit
    /\ IdleConsistency
    /\ IdlePure
    /\ en_command \in Commands
    /\ en_args \in [api_key : {"", "sk-arg"}, concurrency : {-1, 0, 2, 10}]
    /\ en_environ \in [AI_API_KEY : {"", "sk-env"},
                       AI_CONCURRENCY : {"unset", "", "0", "3", "x"}]
    /\ en_work \in 0..MaxWork
    /\ ai_cfg = [api_key |-> "", concurrency |-> 10]
    /\ en_pc = "construct"
    /\ en_step = 1
    /\ remote_calls = 0

SpecEntry == InitEntry /\ [][NextEntry]_vars

\* ------------------------------------------------------------------------
\* translate._split_batch on token estimates.  estimate_tokens (tiktoken) is
\* not computed: each text enters with its estimate, and the estimate of a
\* prompt is the sum of the estimates of its parts.
\* ------------------------------------------------------------------------
\* the margin _truncate_file_content keeps for the strings (line 172)
ContextReserve == 5000

RECURSIVE SumTokens(_)
SumTokens(items) ==
    IF items = <<>> THEN 0 ELSE Head(items).tokens + SumTokens(Tail(items))

\* lines 158-165
estimate_request_tokens(system, template, strings, content) ==
    system + template + content + SumTokens(strings)

\* lines 168-210: the content returned, cut the estimate of the text that
\* lines 180-210 build when the content is over the budget
truncate_file_content(content, system, max_tokens, cut) ==
    LET budget == max_tokens - system - ContextReserve
    IN  IF budget <= 0 THEN [tokens |-> 0, truncated |-> content # 0]
        ELSE IF content <= budget THEN [tokens |-> content, truncated |-> FALSE]
        ELSE [tokens |-> cut, truncated |-> TRUE]

\* int(capacity * 0.8)
Shrunk(capacity) == (capacity * 4) \div 5

\* lines 274-284: the loop, entered with capacity
RECURSIVE ShrinkLoop(_, _, _, _)
ShrinkLoop(items, capacity, fixed, max_tokens) ==
    IF capacity < MinCapacity THEN capacity
    ELSE IF fixed + SumTokens(SubSeq(items, 1, Min2(capacity, Len(items))))
                <= max_tokens
         THEN capacity
    ELSE ShrinkLoop(items, Shrunk(capacity), fixed, max_tokens)

\* lines 257-292, for a pending set that is not empty or fits
SplitPlan(items, system, template, file_content, max_tokens, cut) ==
    LET content == truncate_file_content(file_content, system, max_tokens, cut)
        total == estimate_request_tokens(system, template, items, content.tokens)
        overhead == estimate_request_tokens(system, template, <<>>,
                                            content.tokens)
        per_string == Max2(1, (total - overhead) \div Len(items))
        capacity == Max2(MinCapacity, (max_tokens - overhead) \div per_string)
        fits == total <= max_tokens
    IN  [batches |-> split_batch(items, fits,
                         IF fits THEN MinCapacity
                         ELSE ShrinkLoop(items, capacity, overhead, max_tokens)),
         content |-> content]

\* line 270 divides by len(items): ZeroDivisionError for an empty set that
\* does not fit
SplitRaises(items, system, template, file_content, max_tokens, cut) ==
    /\ items = <<>>
    /\ estimate_request_tokens(
           system, template, items,
           truncate_file_content(file_content, system, max_tokens, cut).tokens)
         > max_tokens

SplitReturns ==
    /\ sb_pc = "start"
    /\ ~SplitRaises(sb_items, sb_system, sb_template, sb_content,
                    sb_max_tokens, sb_cut)
    /\ LET plan == SplitPlan(sb_items, sb_system, sb_template, sb_content,
                             sb_max_tokens, sb_cut)
       IN  /\ sb_batches' = plan.batches
           /\ sb_returned' = plan.content
    /\ sb_pc' = "done"
    /\ UNCHANGED <<notSb, sbInVars, sb_capacity>>

SplitFails ==
    /\ sb_pc = "start"
    /\ SplitRaises(sb_items, sb_system, sb_template, sb_content,
                   sb_max_tokens, sb_cut)
    /\ sb_pc' = "raised"
    /\ UNCHANGED <<notSb, sbInVars, sb_capacity, sb_batches, sb_returned>>

NextSplit ==
    \/ SplitReturns
    \/ SplitFails

\* ------------------------------------------------------------------------
\* Specification SpecSplit: _split_batch on pending sets of some sizes
\* ------------------------------------------------------------------------
\* largest pending set
MaxStrings == 24

\* n strings, the first p of estimate a each, the others of estimate b each
Pending(n, p, a, b) ==
    [i \in 1..n |-> [id |-> i, tokens |-> IF i <= p THEN a ELSE b]]

PendingSets ==
    { Pending(n, p, a, b) :
        n \in {0, 1, MinCapacity, MinCapacity + 1, MaxStrings},
        p \in {0, MinCapacity}, a \in {2, 40}, b \in {2, 40, 900} }

\* estimates a truncated content can have: the windows of lines 194-202 fit
\* the budget, the proportional cuts of lines 188-191 and 205-209 are made on
\* characters and get a marker appended
Cuts(content, system, max_tokens) ==
    LET budget == max_tokens - system - ContextReserve
    IN  IF budget <= 0 \/ content <= budget THEN {0}
        ELSE {budget \div 2, budget, budget + 10}

InitSplit ==
    /\ IdleValidate
    /\ IdleTranslate
    /\ IdleReplace
    /\ IdleEntry
    /\ IdleConsistency
    /\ IdlePure
    /\ sb_items \in PendingSets
    /\ sb_system \in {100, 1000}
    /\ sb_template \in {0, 50}
    /\ sb_content \in {0, 500, 1500}
    /\ sb_max_tokens \in {300, 6000, 7000}
    /\ sb_cut \in Cuts(sb_content, sb_system, sb_max_tokens)
    /\ sb_pc = "start"
    /\ sb_capacity = 0
    /\ sb_batches = <<>>
    /\ sb_returned = [tokens |-> 0, truncated |-> FALSE]

SpecSplit == InitSplit /\ [][NextSplit]_vars

\* ------------------------------------------------------------------------
\* Specification SpecShrink: _split_batch with the loop of lines 278-285
\* taken one turn at a time
\* ------------------------------------------------------------------------
\* the content _split_batch works with (lines 258-260)
SplitContent ==
    truncate_file_content(sb_content, sb_system, sb_max_tokens, sb_cut)

\* lines 264-266
SplitTotal ==
    estimate_request_tokens(sb_system, sb_template, sb_items,
                            SplitContent.tokens)

\* lines 271-273
SplitOverhead ==
    estimate_request_tokens(sb_system, sb_template, <<>>, SplitContent.tokens)

\* lines 267-268: the whole set in one batch
ReturnWhole ==
    /\ SplitTotal <= sb_max_tokens
    /\ SplitReturns

\* lines 270-275: the first capacity
EnterLoop ==
    /\ sb_pc = "start"
    /\ SplitTotal > sb_max_tokens
    /\ sb_items # <<>>
    /\ LET per_string == Max2(1, (SplitTotal - SplitOverhead) \div Len(sb_items))
       IN  sb_capacity' =
               Max2(MinCapacity, (sb_max_tokens - SplitOverhead) \div per_string)
    /\ sb_returned' = SplitContent
    /\ sb_pc' = "loop"
    /\ UNCHANGED <<notSb, sbInVars, sb_batches>>

\* lines 279-283: the trial batch is within the ceiling
TrialFits ==
    SplitOverhead
        + SumTokens(SubSeq(sb_items, 1, Min2(sb_capacity, Len(sb_items))))
      <= sb_max_tokens

\* lines 278-285: one turn of the loop that does not break
ShrinkOnce ==
    /\ sb_pc = "loop"
    /\ sb_capacity >= MinCapacity
    /\ ~TrialFits
    /\ sb_capacity' = Shrunk(sb_capacity)
    /\ UNCHANGED <<notSb, sbInVars, sb_pc, sb_batches, sb_returned>>

\* the capacity is used as the loop left it
Unfloored(capacity) == capacity

\* line 286
floor_capacity(capacity) == Max2(MinCapacity, capacity)

\* lines 286-292: the loop is left, the set is cut
CutBatches ==
    /\ sb_pc = "loop"
    /\ sb_capacity < MinCapacity \/ TrialFits
    /\ sb_capacity' = floor_capacity(sb_capacity)
    /\ sb_batches' = Slices(sb_items, sb_capacity')
    /\ sb_pc' = "done"
    /\ UNCHANGED <<notSb, sbInVars, sb_returned>>

NextShrink ==
    \/ ReturnWhole
    \/ EnterLoop
    \/ ShrinkOnce
    \/ CutBatches
    \/ SplitFails

\* pending sets whose first strings are the long ones, and sets of short
\* strings under a prompt that nearly fills the ceiling
ShrinkSets ==
    { Pending(n, p, a, b) :
        n \in {0, 1, MinCapacity, MinCapacity + 1, MaxStrings},
        p \in {0, MinCapacity}, a \in {1, 900}, b \in {1, 2, 900} }

InitShrink ==
    /\ IdleValidate
    /\ IdleTranslate
    /\ IdleReplace
    /\ IdleEntry
    /\ IdleConsistency
    /\ IdlePure
    /\ sb_items \in ShrinkSets
    /\ sb_system \in {100, 5970, 5990, 6100}
    /\ sb_template \in {0, 5}
    /\ sb_content \in {0, 1500}
    /\ sb_max_tokens \in {6000, 7000}
    /\ sb_cut \in Cuts(sb_content, sb_system, sb_max_tokens)
    /\ sb_pc = "start"
    /\ sb_capacity = 0
    /\ sb_batches = <<>>
    /\ sb_returned = [tokens |-> 0, truncated |-> FALSE]

SpecShrink == InitShrink /\ [][NextShrink]_vars

\* the interpreter runs the loop on: a turn that can be taken is taken
SpecShrinkLive == SpecShrink /\ WF_vars(NextShrink)

\* ------------------------------------------------------------------------
\* consistency.py: the patterns \b<term>\b compiled with re.IGNORECASE
\* ------------------------------------------------------------------------
casefold(c) ==
    CASE c = "O" -> "o" [] c = "Q" -> "q" [] c = "S" -> "s" [] OTHER -> c

\* \b before position i
WordBoundary(text, i) == (At(text, i - 1) \in WordChars) # (At(text, i) \in WordChars)

TermAt(term, text, i) ==
    /\ i + Len(term) - 1 <= Len(text)
    /\ \A k \in 1..Len(term) : casefold(text[i + k - 1]) = casefold(term[k])
    /\ WordBoundary(text, i)
    /\ WordBoundary(text, i + Len(term))

\* pattern.search(text)
term_search(term, text) == \E i \in 1..Len(text) : TermAt(term, text, i)

\* pattern.sub(zh_term, text) from position i on, for a zh_term without
\* backslash
RECURSIVE TermSubFrom(_, _, _, _)
TermSubFrom(term, zh_term, text, i) ==
    IF i > Len(text) THEN <<>>
    ELSE IF TermAt(term, text, i)
         THEN zh_term \o TermSubFrom(term, zh_term, text, i + Len(term))
    ELSE <<text[i]>> \o TermSubFrom(term, zh_term, text, i + 1)

term_sub(term, zh_term, text) == TermSubFrom(term, zh_term, text, 1)

\* zh_term in translated
Contains(text, part) == Find(text, part, 1) # 0

\* ------------------------------------------------------------------------
\* consistency.py: a map is the sequence of its files in insertion order,
\* a file the sequence of its pairs in insertion order
\* ------------------------------------------------------------------------
AllPairs(translations) ==
    Flatten([f \in DOMAIN translations |-> translations[f].pairs])

\* the non-empty translations of an original, as the loops meet them
NonEmptyOf(original, translations) ==
    SelectSeq(AllPairs(translations),
              LAMBDA p : p.original = original /\ p.translated # <<>>)

\* the keys of the Counter of an original
DistinctOf(original, translations) ==
    LET found == NonEmptyOf(original, translations)
    IN  {found[i].translated : i \in DOMAIN found}

\* counter[translated]
CountOf(translated, original, translations) ==
    LET found == NonEmptyOf(original, translations)
    IN  Cardinality({i \in DOMAIN found : found[i].translated = translated})

OriginalsOf(translations) ==
    LET all == AllPairs(translations)
    IN  {all[i].original : i \in DOMAIN all}

\* the rarest translation, the first met among equals
LeastCommon(original, translations) ==
    LET found == NonEmptyOf(original, translations)
        count(i) == CountOf(found[i].translated, original, translations)
    IN  found[MinOf({i \in DOMAIN found :
                        \A j \in DOMAIN found : count(i) <= count(j)})].translated

\* counter.most_common(1)[0][0]: the highest count, the first met among equals
most_common(original, translations) ==
    LET found == NonEmptyOf(original, translations)
        count(i) == CountOf(found[i].translated, original, translations)
    IN  found[MinOf({i \in DOMAIN found :
                        \A j \in DOMAIN found : count(i) >= count(j)})].translated

\* each pair of each file replaced by what fixed(pair) gives it
FixPairs(translations, fixed(_)) ==
    [f \in DOMAIN translations |->
        [file |-> translations[f].file,
         pairs |-> [k \in DOMAIN translations[f].pairs |->
                      [original |-> translations[f].pairs[k].original,
                       translated |-> fixed(translations[f].pairs[k])]]]]

\* lines 115-144
fix_cross_file_inconsistency(translations) ==
    LET unified(p) ==
            IF /\ p.translated # <<>>
               /\ Cardinality(DistinctOf(p.original, translations)) > 1
            THEN most_common(p.original, translations)
            ELSE p.translated
    IN  FixPairs(translations, unified)

\* lines 192-198
violates(term, original, translated) ==
    /\ translated # <<>>
    /\ term_search(term.en, original)
    /\ term_search(term.en, translated)
    /\ ~Contains(translated, term.zh)

\* lines 177-204
RECURSIVE fix_glossary_terms(_, _)
fix_glossary_terms(translations, terms) ==
    IF terms = <<>> THEN translations
    ELSE LET term == Head(terms)
             repaired(p) ==
                 IF violates(term, p.original, p.translated)
                 THEN term_sub(term.en, term.zh, p.translated)
                 ELSE p.translated
         IN  fix_glossary_terms(FixPairs(translations, repaired), Tail(terms))

\* the values of a list, each where it is met first: the keys of a dict
\* filled in that order
RECURSIVE FirstMet(_, _)
FirstMet(seq, seen) ==
    IF seq = <<>> THEN <<>>
    ELSE IF Head(seq) \in seen THEN FirstMet(Tail(seq), seen)
    ELSE <<Head(seq)>> \o FirstMet(Tail(seq), seen \cup {Head(seq)})

\* lines 81-88: the keys of original_to_translations, and of the dict it has
\* for an original
MetOriginals(translations) ==
    LET found == SelectSeq(AllPairs(translations),
                           LAMBDA p : p.translated # <<>>)
    IN  FirstMet([i \in DOMAIN found |-> found[i].original], {})

MetTranslations(original, translations) ==
    LET found == NonEmptyOf(original, translations)
    IN  FirstMet([i \in DOMAIN found |-> found[i].translated], {})

Inconsistent(original, best) ==
    [kind |-> "inconsistent", original |-> original, fix_value |-> best]

\* an issue for each translation that is not the best one
ReportEach(others, original, best) ==
    [i \in DOMAIN others |-> Inconsistent(original, best)]

\* lines 99-110: one issue at the first translation that is not the best
\* one, then break
ReportOnce(others, original, best) ==
    IF others = <<>> THEN <<>> ELSE <<Inconsistent(original, best)>>

\* lines 91-110 for one original
IssuesOf(original, translations) ==
    LET met == MetTranslations(original, translations)
        best == most_common(original, translations)
    IN  IF Len(met) <= 1 THEN <<>>
        ELSE ReportOnce(SelectSeq(met, LAMBDA t : t # best), original, best)

\* lines 76-112: the list of issues
cross_file_issues(translations) ==
    LET met == MetOriginals(translations)
    IN  Flatten([i \in DOMAIN met |-> IssuesOf(met[i], translations)])

\* lines 76-112: the issues by kind and original
check_cross_file_inconsistency(translations) ==
    {[kind |-> "inconsistent",
      original |-> cross_file_issues(translations)[i].original,
      term |-> <<>>] : i \in DOMAIN cross_file_issues(translations)}

\* lines 147-174
check_glossary_terms(translations, terms) ==
    LET all == AllPairs(translations)
    IN  {[kind |-> "glossary_violation", original |-> all[i].original,
          term |-> terms[t].en] :
            <<i, t>> \in {x \in (DOMAIN all) \X (DOMAIN terms) :
                 violates(terms[x[2]], all[x[1]].original, all[x[1]].translated)}}

\* lines 207-232
check_keep_original(translations, keep_original) ==
    LET all == AllPairs(translations)
    IN  {[kind |-> "keep_original_violation", original |-> all[i].original,
          term |-> keep_original[w]] :
            <<i, w>> \in {x \in (DOMAIN all) \X (DOMAIN keep_original) :
                 /\ all[x[1]].translated # <<>>
                 /\ term_search(keep_original[x[2]], all[x[1]].original)
                 /\ ~term_search(keep_original[x[2]], all[x[1]].translated)}}

\* lines 25-40; a glossary that cannot be loaded is one without entries
check_consistency(translations, glossary) ==
    check_cross_file_inconsistency(translations)
        \cup check_glossary_terms(translations, glossary.terms)
        \cup check_keep_original(translations, glossary.keep_original)

\* consistency.run: check_consistency on the map as it was loaded, before
\* any fix
Report ==
    /\ cs_pc = "start"
    /\ ~cs_reported.done
    /\ cs_reported' = [done |-> TRUE,
                       issues |-> cross_file_issues(cs_translations)]
    /\ UNCHANGED <<notCs, csInVars, cs_translations, cs_pc, cs_issues>>

\* fix_consistency, line 51
Unify ==
    /\ cs_pc = "start"
    /\ cs_translations' = fix_cross_file_inconsistency(cs_translations)
    /\ cs_pc' = "unified"
    /\ UNCHANGED <<notCs, csInVars, cs_issues, cs_reported>>

\* fix_consistency, lines 55-61
RepairGlossary ==
    /\ cs_pc = "unified"
    /\ cs_translations' = fix_glossary_terms(cs_translations, cs_glossary.terms)
    /\ cs_pc' = "fixed"
    /\ UNCHANGED <<notCs, csInVars, cs_issues, cs_reported>>

\* check_consistency on the map fix_consistency returned
Check ==
    /\ cs_pc = "fixed"
    /\ cs_issues' = check_consistency(cs_translations, cs_glossary)
    /\ cs_pc' = "checked"
    /\ UNCHANGED <<notCs, csInVars, cs_translations, cs_reported>>

NextConsistency ==
    \/ Report
    \/ Unify
    \/ RepairGlossary
    \/ Check

\* ------------------------------------------------------------------------
\* Specification SpecConsistency: one original held by up to MaxFiles files,
\* a second one held by up to two, and a few glossaries
\* ------------------------------------------------------------------------
MaxFiles == 3

\* no pair for the original in the file
Absent == <<"absent">>
\* "o q s" and "s"
Phrase == <<"o", " ", "q", " ", "s">>
Word == <<"s">>
\* translations of the phrase: "0 q", "0 S", "0 Z", and none
PhraseTranslations == {<<"0", " ", "q">>, <<"0", " ", "S">>, <<"0", " ", "Z">>, <<>>}
WordTranslations(f) ==
    IF f = 1 THEN {<<"s">>, <<"Z">>} ELSE IF f = 2 THEN {<<"Z">>} ELSE {}

TermS == [en |-> <<"s">>, zh |-> <<"Z">>]
\* a term whose rendering holds the source form of another term
TermQ == [en |-> <<"q">>, zh |-> <<"q", " ", "s">>]

Glossaries ==
    {[terms |-> <<>>, keep_original |-> <<>>],
     [terms |-> <<TermS>>, keep_original |-> <<<<"q">>>>],
     [terms |-> <<TermS, TermQ>>, keep_original |-> <<>>],
     [terms |-> <<TermQ, TermS>>, keep_original |-> <<>>]}

FileOf(f, phrase, word) ==
    [file |-> f,
     pairs |-> (IF phrase = Absent THEN <<>>
                ELSE <<[original |-> Phrase, translated |-> phrase]>>)
               \o (IF word = Absent THEN <<>>
                   ELSE <<[original |-> Word, translated |-> word]>>)]

Maps ==
    {[f \in 1..MaxFiles |-> FileOf(f, phrase[f], word[f])] :
        phrase \in [1..MaxFiles -> PhraseTranslations \cup {Absent}],
        word \in {w \in [1..MaxFiles -> {Absent, <<"s">>, <<"Z">>}] :
                     \A f \in 1..MaxFiles :
                         w[f] \in WordTranslations(f) \cup {Absent}}}

InitConsistency ==
    /\ IdleValidate
    /\ IdleTranslate
    /\ IdleReplace
    /\ IdleEntry
    /\ IdleSplit
    /\ IdlePure
    /\ cs_before \in Maps
    /\ cs_glossary \in Glossaries
    /\ cs_translations = cs_before
    /\ cs_pc = "start"
    /\ cs_issues = {}
    /\ cs_reported = [done |-> FALSE, issues |-> <<>>]

SpecConsistency == InitConsistency /\ [][NextConsistency]_vars

\* ------------------------------------------------------------------------
\* Specification SpecEscape: _escape_for_rust_source on the texts of up to
\* MaxValueLen characters
\* ------------------------------------------------------------------------
MaxValueLen == 3

ValueChars == {LF, CR, TAB, Backslash, Quote, "n", "x", "'", "Z"}

ValueTexts == UNION {[1..n -> ValueChars] : n \in 0..MaxValueLen}

Escape ==
    /\ pf_pc = "start"
    /\ pf_out' = escape_for_rust_source(pf_in)
    /\ pf_pc' = "done"
    /\ UNCHANGED <<notPf, pf_in>>

NextEscape == Escape

InitEscape ==
    /\ IdleValidate
    /\ IdleTranslate
    /\ IdleReplace
    /\ IdleEntry
    /\ IdleSplit
    /\ IdleConsistency
    /\ pf_in \in ValueTexts
    /\ pf_out = <<>>
    /\ pf_pc = "start"

SpecEscape == InitEscape /\ [][NextEscape]_vars

\* ------------------------------------------------------------------------
\* translate._build_context_regions (batch.py lines 73-105 is the same
\* code).  Lines are numbered from 0 as in the code; a part of the text
\* returned is a run of lines, [kind "lines", start, end] for lines[start:end],
\* or an elision marker, [kind "marker", first, last] for the two numbers
\* it prints.
\* ------------------------------------------------------------------------
\* sorted(hit_lines)
RECURSIVE Sorted(_)
Sorted(S) ==
    IF S = {} THEN <<>> ELSE <<MinOf(S)>> \o Sorted(S \ {MinOf(S)})

\* lines 219-221
Intervals(total, hit_lines, ctx) ==
    [i \in DOMAIN Sorted(hit_lines) |->
        <<Max2(0, Sorted(hit_lines)[i] - ctx),
          Min2(total, Sorted(hit_lines)[i] + ctx + 1)>>]

\* only intervals that share a line are joined
Overlaps(start, last) == start < last[2]

\* line 226
Touches(start, last) == start <= last[2]

\* lines 224-229
RECURSIVE Merged(_, _)
Merged(intervals, merged) ==
    IF intervals = <<>> THEN merged
    ELSE LET start == Head(intervals)[1]
             end == Head(intervals)[2]
             n == Len(merged)
         IN  IF merged # <<>> /\ Touches(start, merged[n])
             THEN Merged(Tail(intervals),
                         [merged EXCEPT ![n] = <<merged[n][1],
                                                 Max2(merged[n][2], end)>>])
             ELSE Merged(Tail(intervals), Append(merged, <<start, end>>))

Marker(first, last) == [kind |-> "marker", first |-> first, last |-> last]
Lines(start, end) == [kind |-> "lines", first |-> start, last |-> end]

\* lines 232-239
RECURSIVE RegionParts(_, _)
RegionParts(merged, i) ==
    IF i > Len(merged) THEN <<>>
    ELSE (IF i = 1 /\ merged[i][1] > 0
          THEN <<Marker(1, merged[i][1])>>
          ELSE IF i > 1
          THEN <<Marker(merged[i - 1][2] + 1, merged[i][1])>>
          ELSE <<>>)
         \o <<Lines(merged[i][1], merged[i][2])>>
         \o RegionParts(merged, i + 1)

\* lines 213-243, for hit lines that are not empty
build_context_regions(total, hit_lines, ctx) ==
    LET merged == Merged(Intervals(total, hit_lines, ctx), <<>>)
    IN  RegionParts(merged, 1)
        \o (IF merged[Len(merged)][2] < total
            THEN <<Marker(merged[Len(merged)][2] + 1, total)>>
            ELSE <<>>)

BuildRegions ==
    /\ pf_pc = "start"
    /\ pf_out' = build_context_regions(pf_in.total, pf_in.hit_lines, pf_in.ctx)
    /\ pf_pc' = "done"
    /\ UNCHANGED <<notPf, pf_in>>

NextRegions == BuildRegions

\* longest file, in lines
MaxLines == 6
\* widest window
MaxWidth == 2

\* _truncate_file_content calls with the lines of a text (one at least) and
\* the lines that hold a quoted string (one at least, lines 181-192)
InitRegions ==
    /\ IdleValidate
    /\ IdleTranslate
    /\ IdleReplace
    /\ IdleEntry
    /\ IdleSplit
    /\ IdleConsistency
    /\ \E total \in 1..MaxLines :
       \E hit_lines \in (SUBSET (0..(total - 1))) \ {{}} :
       \E ctx \in 1..MaxWidth :
           pf_in = [total |-> total, hit_lines |-> hit_lines, ctx |-> ctx]
    /\ pf_out = <<>>
    /\ pf_pc = "start"

SpecRegions == InitRegions /\ [][NextRegions]_vars

\* ---------------------------------------------------------------------------
\* Specification SpecScan: scan_incremental (scan.py) called on its own
\* ---------------------------------------------------------------------------

MaxScanned == 2

\* the .rs paths of the tree, in sorted order, and a path that is no .rs file
ScanNames == <<"a.rs", "b.rs", "c.rs">>
RsFiles == {ScanNames[i] : i \in 1..MaxScanned}
Readme == "README.md"
endswith_rs(f) == f \in RsFiles

\* sorted(...) of a set of .rs paths
SortedPaths(S) == SelectSeq(SubSeq(ScanNames, 1, MaxScanned), LAMBDA f : f \in S)

\* what a path is on disk when the scan runs: no file, a file of blanks, or
\* a file the service answers YES or NO for, or fails on at every attempt
\* of both rounds, or fails on in the first round and answers NO in the
\* second
DiskStates == {"missing", "blank", "YES", "NO", "error", "late NO"}

\* _scan_file_list, lines 127-178, with _retry_failed, lines 189-224: the
\* files answered YES, and the files that failed to the end, taken as YES
scan_file_list(file_list, on_disk) ==
    {f \in file_list : on_disk[f] \in {"YES", "error"}}

\* lines 284 and 297
KeptButDeleted(previous_files, deleted_set) ==
    SelectSeq(previous_files, LAMBDA f : f \notin deleted_set)

\* lines 308-311
KeptUnchanged(previous_files, deleted_set, changed_set) ==
    SelectSeq(previous_files,
              LAMBDA f : f \notin deleted_set /\ f \notin changed_set)

\* lines 261-318
scan_incremental(changed_files, deleted_files, previous_files, on_disk) ==
    LET changed_rs == {f \in changed_files : endswith_rs(f)}
        abs_files == {f \in changed_rs : on_disk[f] # "missing"}
        newly_yes == scan_file_list(abs_files, on_disk)
        kept == KeptUnchanged(previous_files, deleted_files, changed_rs)
    IN  IF changed_rs = {} THEN KeptButDeleted(previous_files, deleted_files)
        ELSE IF abs_files = {}
             THEN KeptButDeleted(previous_files, deleted_files)
        ELSE SortedPaths({kept[i] : i \in DOMAIN kept} \cup newly_yes)

ScanIncremental ==
    /\ pf_pc = "start"
    /\ pf_out' = scan_incremental(pf_in.changed_files, pf_in.deleted_files,
                                  pf_in.previous_files, pf_in.on_disk)
    /\ pf_pc' = "done"
    /\ UNCHANGED <<notPf, pf_in>>

NextScan == ScanIncremental

\* the previous list is the one save_scan_result wrote: sorted .rs paths
InitScan ==
    /\ IdleValidate /\ IdleTranslate /\ IdleReplace /\ IdleEntry
    /\ IdleSplit /\ IdleConsistency
    /\ \E changed \in SUBSET (RsFiles \cup {Readme}), deleted \in SUBSET RsFiles,
          previous \in SUBSET RsFiles, on_disk \in [RsFiles -> DiskStates] :
           pf_in = [changed_files |-> changed, deleted_files |-> deleted,
                    previous_files |-> SortedPaths(previous), on_disk |-> on_disk]
    /\ pf_out = <<>>
    /\ pf_pc = "start"

SpecScan == InitScan /\ [][NextScan]_vars

\* ---------------------------------------------------------------------------
\* Specification SpecPatch: the two patch functions of patch_agent_env.py,
\* called on a source tree any number of times
\* ---------------------------------------------------------------------------

MaxTokens == 2
MaxCalls == 2

\* A file is a sequence of pieces of text: the marker, the line the first
\* patch looks for, the snippet the second patch looks for, and other text.
PATCH_MARKER == "[ZED_GLOBALIZATION_PATCH]"
old_line == "env.insert(\"ANTHROPIC_API_KEY\".into(), \"\".into());"
old_snippet == "let extra_env = load_proxy_env(cx);"
OtherText == "fn connect() {}"

\* line 38 with the marker left out
UnmarkedLine == <<"// ", "ANTHROPIC_API_KEY">>

\* line 38
new_line == <<"// ", PATCH_MARKER, "ANTHROPIC_API_KEY">>

\* lines 69-89
new_snippet ==
    <<"let mut extra_env = load_proxy_env(cx); // ", PATCH_MARKER,
      "for var_name in [...] {...} for (key, val) in std::env::vars() {...}">>

StoreFile == "crates/project/src/agent_server_store.rs"
ClaudeFile == "crates/agent_servers/src/claude.rs"
PatchTargets == {StoreFile, ClaudeFile}

\* 'piece in content'
HasPiece(content, piece) == \E i \in DOMAIN content : content[i] = piece

\* content.replace(old, new, 1)
ReplaceFirst(content, old, new) ==
    IF ~HasPiece(content, old) THEN content
    ELSE LET i == CHOOSE k \in DOMAIN content :
                      /\ content[k] = old
                      /\ \A j \in 1..(k - 1) : content[j] # old
         IN  SubSeq(content, 1, i - 1) \o new \o SubSeq(content, i + 1, Len(content))

\* lines 23-46 and 54-98: the tree a patch function leaves, what it
\* returns, and whether it wrote the file
ApplyPatch(tree, target, old, new, dry_run) ==
    IF ~tree[target].exists
        THEN [tree |-> tree, result |-> FALSE, wrote |-> FALSE]
    ELSE IF HasPiece(tree[target].content, PATCH_MARKER)
        THEN [tree |-> tree, result |-> TRUE, wrote |-> FALSE]
    ELSE IF ~HasPiece(tree[target].content, old)
        THEN [tree |-> tree, result |-> FALSE, wrote |-> FALSE]
    ELSE IF dry_run
        THEN [tree |-> tree, result |-> TRUE, wrote |-> FALSE]
    ELSE [tree |-> [tree EXCEPT ![target].content =
                        ReplaceFirst(tree[target].content, old, new)],
          result |-> TRUE, wrote |-> TRUE]

\* lines 18-46
patch_remove_api_key_clear(tree, dry_run) ==
    ApplyPatch(tree, StoreFile, old_line, new_line, dry_run)

\* lines 49-98
patch_claude_env_passthrough(tree, dry_run) ==
    ApplyPatch(tree, ClaudeFile, old_snippet, new_snippet, dry_run)

\* pf_in is the tree with the number of calls and of writes so far; pf_out
\* is the last call: the function, its dry_run, the tree it was given and
\* what it returned
Called(name, dry_run, done) ==
    /\ pf_pc \in {"start", "done"}
    /\ pf_in.calls < MaxCalls
    /\ pf_in' = [tree |-> done.tree, calls |-> pf_in.calls + 1,
                 writes |-> pf_in.writes + (IF done.wrote THEN 1 ELSE 0)]
    /\ pf_out' = [patch |-> name, dry_run |-> dry_run, before |-> pf_in.tree,
                  written |-> pf_in.writes, result |-> done.result]
    /\ pf_pc' = "done"
    /\ UNCHANGED notPf

PatchRemoveApiKeyClear ==
    \E dry_run \in BOOLEAN :
        Called("patch_remove_api_key_clear", dry_run,
               patch_remove_api_key_clear(pf_in.tree, dry_run))

PatchClaudeEnvPassthrough ==
    \E dry_run \in BOOLEAN :
        Called("patch_claude_env_passthrough", dry_run,
               patch_claude_env_passthrough(pf_in.tree, dry_run))

NextPatch ==
    \/ PatchRemoveApiKeyClear
    \/ PatchClaudeEnvPassthrough

PatchPieces == {PATCH_MARKER, old_line, old_snippet, OtherText}

PatchFiles ==
    {[exists |-> FALSE, content |-> <<>>]} \cup
    {[exists |-> TRUE, content |-> c] :
        c \in UNION {[1..n -> PatchPieces] : n \in 0..MaxTokens}}

InitPatch ==
    /\ IdleValidate /\ IdleTranslate /\ IdleReplace /\ IdleEntry
    /\ IdleSplit /\ IdleConsistency
    /\ \E tree \in [PatchTargets -> PatchFiles] :
           pf_in = [tree |-> tree, calls |-> 0, writes |-> 0]
    /\ pf_out = <<>>
    /\ pf_pc = "start"

SpecPatch == InitPatch /\ [][NextPatch]_vars

\* ---------------------------------------------------------------------------
\* Specification SpecAgree: replace._check_placeholders and
\* prompts.validate_placeholders given the same original and translation
\* ---------------------------------------------------------------------------

\* replace.py lines 156-158 and prompts.py lines 156-173 on one pair
BothChecks(original, translated) ==
    [accepted |-> check_placeholders(extract_placeholders(original),
                                     extract_placeholders(translated)),
     errors |-> validate_placeholders([k \in {original} |-> translated])]

CheckBoth ==
    /\ pf_pc = "start"
    /\ pf_out' = BothChecks(pf_in.original, pf_in.translated)
    /\ pf_pc' = "done"
    /\ UNCHANGED <<notPf, pf_in>>

NextAgree == CheckBoth

InitAgree ==
    /\ IdleValidate /\ IdleTranslate /\ IdleReplace /\ IdleEntry
    /\ IdleSplit /\ IdleConsistency
    /\ \E original \in Texts, translated \in Texts :
           pf_in = [original |-> original, translated |-> translated]
    /\ pf_out = <<>>
    /\ pf_pc = "start"

SpecAgree == InitAgree /\ [][NextAgree]_vars

\* ========================================================================
\* Properties
\* ========================================================================
\* The placeholder classes as section 4.1 words them: percent forms are
\* positional; a brace form is positional when nothing, or a format spec,
\* stands between its braces
PositionalForm(ph) ==
    \/ ph[1] = "%"
    \/ ph[1] = "{" /\ (Len(ph) = 2 \/ ph[2] = ":")

PositionalOf(text) == SelectSeq(extract_placeholders(text), PositionalForm)

NamedForm(ph) == ~PositionalForm(ph)

NamedOf(text) == SelectSeq(extract_placeholders(text), NamedForm)

ElementsOf(seq) == { seq[i] : i \in DOMAIN seq }

BagOf(seq) ==
    [x \in ElementsOf(seq) |-> Cardinality({ i \in DOMAIN seq : seq[i] = x })]

\* same positional sequence, same named placeholders counted with multiplicity
PlaceholdersPreserved(original, translated) ==
    /\ PositionalOf(original) = PositionalOf(translated)
    /\ BagOf(NamedOf(original)) = BagOf(NamedOf(translated))

\* same positional sequence, same set of named placeholders
PlaceholderSetsPreserved(original, translated) ==
    /\ PositionalOf(original) = PositionalOf(translated)
    /\ ElementsOf(NamedOf(original)) = ElementsOf(NamedOf(translated))

Ended(t) == task_state[t].pc \in {"finished", "merged"}

\* C1: when _translate_batch has returned, every non-empty translation of the
\* returned map preserves the placeholders of its original, and the returned
\* map is the repaired map with exactly the still-mismatched entries emptied.
C1_ReturnedMapIsValid ==
    \A t \in Tasks :
        Ended(t) =>
            LET ret == task_state[t].ret
                res == task_state[t].result
            IN  /\ DOMAIN ret = DOMAIN res
                /\ \A k \in DOMAIN ret :
                       /\ ret[k] # <<>> => PlaceholdersPreserved(k, ret[k])
                       /\ ret[k] = IF PlaceholdersPreserved(k, res[k])
                                   THEN res[k] ELSE <<>>

\* a batch returned after its repair rounds with one entry emptied and
\* another one kept
C1_Witness ==
    \E t \in Tasks :
        /\ Ended(t)
        /\ task_state[t].phase = "fix"
        /\ \E k \in DOMAIN task_state[t].ret :
               task_state[t].result[k] # <<>> /\ task_state[t].ret[k] = <<>>
        /\ \E k \in DOMAIN task_state[t].ret : task_state[t].ret[k] # <<>>

\* C2: every replacement that replace_in_source made in a file is of a pair
\* whose translated text, as it is substituted, preserves the placeholders of
\* its original; a pair failing the placeholder check is never substituted.
C2_NoMismatchSubstituted ==
    \A s \in substituted :
        /\ s.n > 0
        /\ s.new_value # <<>>
        /\ PlaceholdersPreserved(s.original, s.new_value)
        /\ s.new_text = Quoted(escape_for_rust_source(s.new_value))

\* a pair of the entry at position i whose text, as it would be substituted,
\* does not preserve the placeholders of its original
MismatchedItem(i, k) ==
    LET item == rp_translations[i].items[k]
    IN  /\ item[2] # <<>>
        /\ ~PlaceholdersPreserved(item[1], normalize_fullwidth(item[2]))

\* replace_in_source has returned; in one file a pair was substituted while
\* a mismatched pair of the same file, whose quoted original stands in the
\* file outside the protected ranges, was not
C2_Witness ==
    /\ rp_pc = "returned"
    /\ \E i \in DOMAIN rp_translations :
          LET e == rp_translations[i]
              fp == resolve_file_path(e.file, source_root)
          IN  /\ fp.ok
              /\ \E s \in substituted : s.file = e.file
              /\ \E k \in DOMAIN e.items :
                     /\ MismatchedItem(i, k)
                     /\ ~PUNCT_ONLY(e.items[k][1])
                     /\ ~ASCII_IDENTIFIER(e.items[k][1])
                     /\ replace_skip_protected(
                            disk[fp.path].text, Quoted(e.items[k][1]), <<>>,
                            find_protected_ranges(disk[fp.path].text))[2] > 0

AttemptsOf(t, tier) ==
    { i \in DOMAIN task_state[t].ladder : task_state[t].ladder[i].tier = tier }

EmptyAttemptsOf(t, tier) ==
    { i \in AttemptsOf(t, tier) : task_state[t].ladder[i].outcome = "empty" }

InLadder(t) ==
    task_state[t].pc \in {"call", "sleep"} /\ task_state[t].phase = "fetch"

Decoded(t) ==
    /\ task_state[t].ladder # <<>>
    /\ task_state[t].ladder[Len(task_state[t].ladder)].outcome = "parsed"

\* C4: the tiers are attempted in the order JSON, XML, numbered; no tier is
\* attempted more than 3 times; a tier is attempted only after the tier before
\* it made 3 attempts that each decoded nothing; the first attempt that
\* decodes something is the last one and leaves the batch DECODED (with a
\* non-empty map, or with a JSON value that is no map, on which the
\* placeholder check then raises).
C4_LadderOrder ==
    \A t \in Tasks :
        LET ladder == task_state[t].ladder
        IN  /\ \A i, j \in DOMAIN ladder : i < j => ladder[i].tier <= ladder[j].tier
            /\ \A tier \in 1..FormatTiers :
                   /\ Cardinality(AttemptsOf(t, tier)) <= 3
                   /\ (tier > 1 /\ (AttemptsOf(t, tier) # {}
                                    \/ (InLadder(t) /\ task_state[t].tier = tier)))
                          => Cardinality(EmptyAttemptsOf(t, tier - 1)) = 3
            /\ InLadder(t) =>
                   /\ Cardinality(AttemptsOf(t, task_state[t].tier)) < 3
                   /\ \A i \in DOMAIN ladder : ladder[i].outcome = "empty"
            /\ \A i \in DOMAIN ladder :
                   ladder[i].outcome = "parsed" =>
                       /\ i = Len(ladder)
                       /\ ~InLadder(t)
                       /\ \/ task_state[t].result # EmptyDict
                          \/ task_state[t].pc = "raised"

\* a batch decoded by the numbered tier, after 3 JSON and 3 XML attempts
C4_Witness ==
    \E t \in Tasks :
        /\ Decoded(t)
        /\ task_state[t].ladder[Len(task_state[t].ladder)].tier = 3
        /\ Cardinality(EmptyAttemptsOf(t, 1)) = 3
        /\ Cardinality(EmptyAttemptsOf(t, 2)) = 3

LastAttempt(t, i) ==
    /\ task_state[t].ladder[i].tier = FormatTiers
    /\ Cardinality(AttemptsOf(t, FormatTiers)) = TierAttempts

LadderExhausted(t) ==
    /\ Ended(t)
    /\ \A tier \in 1..FormatTiers :
           Cardinality(EmptyAttemptsOf(t, tier)) = TierAttempts

\* C6 as claimed: when the run is over, a batch that exhausted the three
\* tiers is counted as failed and each of its originals is in the output map
\* with an empty translation.
C6_FailedStringsPresentEmpty ==
    run_pc = "done" =>
        \A t \in Tasks :
            LadderExhausted(t) =>
                /\ fail_count >= 1
                /\ \A k \in BatchKeys(t) :
                       /\ k \in DOMAIN result[tasks[t].fp]
                       /\ result[tasks[t].fp][k] = <<>>

\* C6 as amended: a batch that exhausted the three tiers is counted as failed
\* and merging it writes nothing: the output map is left as it was, so each
\* original of the batch keeps the entry it had (that of the existing map when
\* no other batch supplied one) and is absent when it had none.
C6_FailedBatchWritesNothing ==
    [][\A t \in Tasks :
          (run_pc = "merging" /\ completed # <<>> /\ Head(completed) = t
              /\ LadderExhausted(t) /\ task_state'[t].pc = "merged")
             => /\ result' = result
                /\ fail_count' = fail_count + 1]_vars

\* the run is over, its batch exhausted the ladder, and an original of the
\* batch is absent from the output map
C6_Witness ==
    /\ run_pc = "done"
    /\ fail_count = 1
    /\ \E t \in Tasks :
           /\ LadderExhausted(t)
           /\ \E k \in BatchKeys(t) : k \notin DOMAIN result[tasks[t].fp]
           /\ result = InitialResult

Failed(t) == Ended(t) /\ task_state[t].ret = EmptyDict
Succeeded(t) == Ended(t) /\ task_state[t].ret # EmptyDict

SameFileWriters(t, k) ==
    { u \in Tasks : /\ tasks[u].fp = tasks[t].fp
                    /\ task_state[u].pc = "merged"
                    /\ k \in DOMAIN task_state[u].ret }

\* C7: a batch that returns the empty map has left the gate (the slots held
\* plus the slots free are always the configured width, and only running
\* batches hold one), so a waiting batch can enter whenever fewer than N
\* batches run; the failure count is the number of merged empty results; when
\* the run is over every other batch has been merged into the map.
C7_FailedBatchDoesNotBlock ==
    /\ \A t \in Tasks : Ended(t) => t \notin holders
    /\ run_pc \in {"merging", "done"} =>
           semaphore + Cardinality(holders) = concurrency
    /\ fail_count =
           Cardinality({ t \in Tasks : task_state[t].pc = "merged" /\ Failed(t) })
    /\ run_pc = "done" =>
           \A t \in Tasks :
               /\ task_state[t].pc = "merged"
               /\ Succeeded(t) =>
                      \A k \in DOMAIN task_state[t].ret :
                          /\ k \in DOMAIN result[tasks[t].fp]
                          /\ \E u \in SameFileWriters(t, k) :
                                 result[tasks[t].fp][k] = task_state[u].ret[k]

\* width 1: the first batch failed, and the batches that needed its slot ran
\* and were merged
C7_Witness ==
    /\ run_pc = "done"
    /\ concurrency = 1
    /\ Len(tasks) = 3
    /\ Failed(1)
    /\ Succeeded(2)
    /\ Succeeded(3)
    /\ fail_count = 1

InFlight == { t \in Tasks : task_state[t].pc = "call" }

\* C8: at most N batches hold the gate, and so at most N have a request in
\* flight, whatever files they belong to.
C8_GateBound ==
    /\ Cardinality(holders) <= concurrency
    /\ Cardinality(InFlight) <= concurrency
    /\ InFlight \subseteq holders
    /\ semaphore >= 0

\* the gate is full with batches of two files while a batch waits
C8_Witness ==
    /\ Cardinality(holders) = concurrency
    /\ \E t, u \in holders : tasks[t].fp # tasks[u].fp
    /\ \E w \in Tasks : task_state[w].pc = "wait_sem"

\* C9 as claimed: the gate is held only around each single request: a batch
\* that holds a slot has a request in flight.
C9_GateHeldOnlyDuringCall ==
    \A t \in holders : task_state[t].pc = "call"

\* C9 as amended: the gate is acquired once, before _translate_batch starts,
\* and released once, after it returns: a batch holds its slot for its whole
\* duration, backoff sleeps and the time between its requests included.
C9_GateHeldForWholeBatch ==
    \A t \in Tasks : (t \in holders) <=> (task_state[t].pc \in {"call", "sleep"})

\* a batch sleeps for backoff with the only slot while another batch waits
C9_Witness ==
    /\ concurrency = 1
    /\ \E t \in holders : task_state[t].pc = "sleep"
    /\ \E w \in Tasks : task_state[w].pc = "wait_sem"

\* the map the run returns when the batches are merged in task order
RECURSIVE MergedInTaskOrder(_, _)
MergedInTaskOrder(res, t) ==
    IF t > Len(tasks) THEN res
    ELSE MergedInTaskOrder(
             IF task_state[t].ret # EmptyDict
             THEN MergeTranslations(res, tasks[t].fp, task_state[t].ret)
             ELSE res,
             t + 1)

\* C10: the map the run returns is the same for every completion order of
\* the batches, hence the one obtained by merging their results in task order.
C10_MergeOrderIrrelevant ==
    run_pc = "done" => result = MergedInTaskOrder(InitialResult, 1)

\* C11: no error of a single batch and no error of a single file aborts the
\* run: when the translation run is over every batch has been merged or
\* counted as failed, and when the substitution is over every file of the
\* map has been visited.
C11_ErrorsDoNotAbort ==
    /\ run_pc \in {"done", "aborted"} => pbar_current = Len(tasks)
    /\ rp_pc \in {"returned", "aborted"} => rp_index > Len(rp_translations)

\* the configuration has no credential
NoCredential == en_args.api_key = "" /\ en_environ.AI_API_KEY = ""

\* C12: when neither the command line nor the environment gives a credential,
\* translate_all, scan_files, scan_incremental and the pipeline command stop
\* at their first AIConfig.validate with a fatal error: no request has been
\* sent and no later step is reached.
C12_NoCredentialIsFatal ==
    (en_pc # "idle" /\ NoCredential) =>
        /\ remote_calls = 0
        /\ en_step = 1
        /\ en_pc \in {"construct", "steps", "fatal"}

\* the pipeline command, with requests to make, ended fatally without one
C12_Witness ==
    /\ NoCredential
    /\ en_command = "pipeline"
    /\ en_work > 0
    /\ en_pc = "fatal"
    /\ remote_calls = 0

\* the strings of file fp that were handed to a batch
Dispatched(fp) ==
    UNION { BatchKeys(t) : t \in { u \in Tasks : tasks[u].fp = fp } }

\* the keys of the entry the existing map has for fp
ExistingKeys(fp) == IF fp \in DOMAIN existing THEN DOMAIN existing[fp] ELSE {}

\* C13: once the batches are planned, the strings dispatched for a file are
\* the extracted strings that are no key of the existing entry of the file in
\* incremental mode, and all the extracted strings of the file in full mode.
C13_DispatchedSet ==
    run_pc \in {"merging", "done", "aborted"} =>
        \A i \in DOMAIN all_strings :
            LET fp == all_strings[i].file
            IN  Dispatched(fp) =
                    IF mode = "full" THEN FileStrings(fp)
                    ELSE FileStrings(fp) \ ExistingKeys(fp)

\* incremental mode with a string already in the existing map, with an empty
\* translation: that string is not dispatched, the other one is
C13_Witness ==
    /\ run_pc = "merging"
    /\ mode = "incremental"
    /\ ExistingKeys("f.rs") = {SaveIt}
    /\ existing["f.rs"][SaveIt] = <<>>
    /\ Dispatched("f.rs") = {ByName}

\* the batches, one after the other
Concatenated(batches) == Flatten(batches)

\* C14: the batches _split_batch returns are slices of the pending set, in
\* its order, and put end to end they are the pending set: no string is
\* dropped, none is in two batches, and no batch is empty.
C14_BatchesPartition ==
    sb_pc = "done" =>
        /\ Concatenated(sb_batches) = sb_items
        /\ \A i \in DOMAIN sb_batches : sb_batches[i] # <<>> \/ sb_items = <<>>

\* a pending set cut into three batches
C14_Witness ==
    /\ sb_pc = "done"
    /\ Len(sb_batches) = 3
    /\ Len(sb_items) = MaxStrings

\* C15: every batch _split_batch returns, in a prompt with the system prompt
\* and the content it returns, is estimated within the ceiling.
C15_BatchesWithinCeiling ==
    sb_pc = "done" =>
        \A i \in DOMAIN sb_batches :
            estimate_request_tokens(sb_system, sb_template, sb_batches[i],
                                    sb_returned.tokens) <= sb_max_tokens

\* C16: when the prompt of the whole pending set with the whole file content
\* is estimated within the ceiling, _split_batch returns one batch holding
\* the whole set and the file content as it was.
C16_FitsMeansOneBatchFullContent ==
    (/\ sb_pc = "done"
     /\ estimate_request_tokens(sb_system, sb_template, sb_items, sb_content)
          <= sb_max_tokens)
    => /\ sb_batches = <<sb_items>>
       /\ ~sb_returned.truncated

\* the originals that have a non-empty translation somewhere
Translated(translations) ==
    {o \in OriginalsOf(translations) : DistinctOf(o, translations) # {}}

\* the highest count a translation of the original has
TopCount(original, translations) ==
    CHOOSE n \in 0..Len(AllPairs(translations)) :
        /\ \E t \in DistinctOf(original, translations) :
               CountOf(t, original, translations) = n
        /\ \A t \in DistinctOf(original, translations) :
               CountOf(t, original, translations) <= n

\* C17: after fix_consistency, the files that hold a non-empty translation
\* of an original all hold the same one; and after the unification step that
\* translation is one that no other translation of the original outnumbered
\* in the map as it was passed in.
C17_UnifiedToMostFrequent ==
    /\ cs_pc \in {"unified", "fixed", "checked"} =>
           \A o \in OriginalsOf(cs_translations) :
               Cardinality(DistinctOf(o, cs_translations)) <= 1
    /\ cs_pc = "unified" =>
           \A o \in Translated(cs_before) :
               \E t \in DistinctOf(o, cs_before) :
                   /\ DistinctOf(o, cs_translations) = {t}
                   /\ CountOf(t, o, cs_before) = TopCount(o, cs_before)

\* two files out of three held one translation, the third another, and the
\* glossary repair then rewrote it
C17_Witness ==
    /\ cs_pc = "fixed"
    /\ Cardinality(DistinctOf(Phrase, cs_before)) = 2
    /\ TopCount(Phrase, cs_before) = 2
    /\ \E t \in DistinctOf(Phrase, cs_translations) : t \notin DistinctOf(Phrase, cs_before)

\* C18: check_consistency on the map fix_consistency returned reports no
\* glossary violation and no cross-file inconsistency.
C18_FixLeavesNothingToReport ==
    cs_pc = "checked" =>
        \A issue \in cs_issues :
            issue.kind \notin {"glossary_violation", "inconsistent"}

\* the end (exclusive) of the raw string literal, byte string literal or
\* attribute other than error that starts at position i of a Rust text, or 0
RawStringLiteral(content, i) ==
    LET k == HashRun(content, i + 1)
        close == RawClose(content, i + 2 + k, k)
    IN  IF At(content, i) = "r" /\ At(content, i - 1) \notin WordChars
           /\ At(content, i + 1 + k) = Quote /\ close # 0
        THEN close + k + 1 ELSE 0

ByteStringLiteral(content, i) ==
    IF At(content, i - 1) \in WordChars THEN 0
    ELSE IF RawByteString(content, i) # 0 THEN RawByteString(content, i)
    ELSE IF PlainRawByteString(content, i) # 0 THEN PlainRawByteString(content, i)
    ELSE ByteString(content, i)

OtherAttribute(content, i) ==
    IF At(content, i) = "#" /\ At(content, i + 1) = "["
       /\ ~ErrorAhead(content, i + 2) /\ Find(content, <<"]">>, i) # 0
    THEN Find(content, <<"]">>, i) + 1 ELSE 0

LiteralEnds(content, i) ==
    {RawStringLiteral(content, i), ByteStringLiteral(content, i),
     OtherAttribute(content, i)} \ {0}

\* the texts of those literals and attributes that hold a quoted original
ProtectedLiterals(content) ==
    {region \in {SubSeq(content, x[1], x[2] - 1) :
                    x \in {y \in (DOMAIN content) \X (2..(Len(content) + 1)) :
                              y[2] \in LiteralEnds(content, y[1])}} :
        \E i \in DOMAIN rp_translations, k \in 1..MaxItems :
            /\ k <= Len(rp_translations[i].items)
            /\ Find(region, Quoted(rp_translations[i].items[k][1]), 1) # 0}

\* C19: a raw string literal, a byte string literal or an attribute other
\* than error that holds a quoted original of the translation dict is in the
\* file after replace_in_source as it was before: the quoted original in it
\* is not rewritten.
C19_ProtectedLiteralsKept ==
    \A p \in DOMAIN disk :
        \A region \in ProtectedLiterals(SourceTree[p].text) :
            Find(disk[p].text, region, 1) # 0

\* C20: the second run of replace_in_source on the same files with the same
\* translation dict substitutes nothing and leaves every file as the first
\* run left it.
C20_SecondRunChangesNothing ==
    (rp_run = 2 /\ rp_pc = "returned") =>
        /\ total_count = 0
        /\ disk = first_disk

\* the original is one that _filter_replacements drops for the file
Excluded(file_path, original) ==
    \/ original \in global_do_not_translate
    \/ <<file_path, original>> \in do_not_translate
    \/ PUNCT_ONLY(original)
    \/ ASCII_IDENTIFIER(original)

\* C21: no replacement replace_in_source made is of a pair whose original is
\* in the global do-not-translate set, whose (file, original) is in the
\* file-scoped set, whose original is only ASCII punctuation and whitespace,
\* or whose original is a bare lowercase identifier.
C21_ExcludedNeverSubstituted ==
    \A s \in substituted : ~Excluded(s.file, s.original)

\* the entry at position i was rewritten, and a pair of it with an excluded
\* original and a translation still has its quoted original in the file,
\* outside the protected ranges
ExcludedLeft(i, how(_)) ==
    LET e == rp_translations[i]
        fp == resolve_file_path(e.file, source_root)
    IN  /\ fp.ok
        /\ \E s \in substituted : s.file = e.file
        /\ \E k \in DOMAIN e.items :
               /\ e.items[k][2] # <<>>
               /\ how(e.items[k][1])
               /\ replace_skip_protected(
                      disk[fp.path].text, Quoted(e.items[k][1]), <<>>,
                      find_protected_ranges(disk[fp.path].text))[2] > 0

C21_Witness ==
    /\ rp_pc = "returned"
    /\ \E i \in DOMAIN rp_translations : ExcludedLeft(i, PUNCT_ONLY)
    /\ \E i \in DOMAIN rp_translations : ExcludedLeft(i, ASCII_IDENTIFIER)

\* the files in which a replacement was made
Rewritten ==
    {resolve_file_path(s.file, source_root).path : s \in substituted}

\* C22: a file in which replace_in_source made no replacement holds the text
\* it had before, the punctuation repair not applied; and the run does not
\* stop on a file it cannot write when nothing was replaced in it.
C22_UntouchedFileUnchanged ==
    /\ \A p \in DOMAIN disk :
           p \notin Rewritten => disk[p].text = SourceTree[p].text
    /\ rp_pc = "aborted" =>
           LET fp == resolve_file_path(Entry.file, source_root)
           IN  \/ ~disk[fp.path].decodable
               \/ ReplaceInText(disk[fp.path].text, Entry.items, Entry.file).count > 0

\* the crate file, which the punctuation repair would change, was gone
\* through with a translated pair and nothing was replaced in it
C22_Witness ==
    /\ rp_pc = "returned"
    /\ CrateFile \notin Rewritten
    /\ sanitize_rust_syntax(disk[CrateFile].text) # disk[CrateFile].text
    /\ \E i \in DOMAIN rp_translations :
           /\ resolve_file_path(rp_translations[i].file, source_root).ok
           /\ resolve_file_path(rp_translations[i].file, source_root).path = CrateFile
           /\ \E k \in DOMAIN rp_translations[i].items :
                  rp_translations[i].items[k][2] # <<>>

\* the entry cannot be resolved on disk
Unresolved(e) == ~resolve_file_path(e.file, source_root).ok

\* C23: an entry of the translation dict whose file cannot be resolved is
\* put on the list of missing files when the loop passes it and no
\* replacement is made for it; after the cleanup the persisted dict is the
\* dict without the entries that cannot be resolved, the others as they were.
C23_MissingReportedAndPurged ==
    /\ \A i \in DOMAIN rp_translations :
           Unresolved(rp_translations[i]) =>
               /\ i < rp_index =>
                      \E m \in DOMAIN missing_files :
                          missing_files[m] = rp_translations[i].file
               /\ \A s \in substituted : s.file # rp_translations[i].file
    /\ \A p \in DOMAIN disk :
           (\A i \in DOMAIN rp_translations :
                resolve_file_path(rp_translations[i].file, source_root).ok
                    => resolve_file_path(rp_translations[i].file,
                                         source_root).path # p)
               => disk[p] = SourceTree[p]
    /\ rp_pc = "cleaned" =>
           persisted = SelectSeq(rp_translations, LAMBDA e : ~Unresolved(e))

\* the dict had a file that cannot be resolved and one that can; the cleanup
\* removed the first and kept the second
C23_Witness ==
    /\ rp_pc = "cleaned"
    /\ Len(rp_translations) = 2
    /\ Len(persisted) = 1
    /\ total_count > 0

\* read as the inside of a string literal from position i on: a backslash
\* takes the character after it, and there is no double quote outside such a
\* pair, no backslash without a character after it, and no raw newline,
\* carriage return or tab
RECURSIVE StaysInside(_, _)
StaysInside(text, i) ==
    IF i > Len(text) THEN TRUE
    ELSE IF text[i] \in {LF, CR, TAB, Quote} THEN FALSE
    ELSE IF text[i] = Backslash
         THEN i + 1 <= Len(text) /\ text[i + 1] \notin {LF, CR, TAB}
              /\ StaysInside(text, i + 2)
    ELSE StaysInside(text, i + 1)

\* the same, every backslash followed by one of n r t x 0 u \ " '
RECURSIVE AlreadyEscaped(_, _)
AlreadyEscaped(text, i) ==
    IF i > Len(text) THEN TRUE
    ELSE IF text[i] \in {LF, CR, TAB, Quote} THEN FALSE
    ELSE IF text[i] = Backslash
         THEN i + 1 <= Len(text)
              /\ text[i + 1] \in {"n", "r", "t", "x", "0", "u", Backslash, Quote, "'"}
              /\ AlreadyEscaped(text, i + 2)
    ELSE AlreadyEscaped(text, i + 1)

\* the text before the first character that is not part of an escape
\* sequence already valid or a plain character
RECURSIVE ValidPrefix(_, _)
ValidPrefix(text, i) ==
    IF i > Len(text) \/ ~AlreadyEscaped(SubSeq(text, 1, i), 1) THEN i - 1
    ELSE ValidPrefix(text, i + 1)

\* C24: the text _escape_for_rust_source returns has no raw newline,
\* carriage return or tab and no double quote that a backslash does not
\* escape; a text that needs no escaping is returned as it is, and so is
\* the part of a text before the first character that needs escaping.
C24_EscapedTextStaysInside ==
    pf_pc = "done" =>
        /\ StaysInside(pf_out, 1)
        /\ AlreadyEscaped(pf_in, 1) => pf_out = pf_in
        /\ LET n == ValidPrefix(pf_in, 1)
           IN  n <= Len(pf_out) /\ SubSeq(pf_out, 1, n) = SubSeq(pf_in, 1, n)
        /\ escape_for_rust_source(pf_out) = pf_out

\* an escape sequence already valid followed by a bare double quote
C24_Witness ==
    /\ pf_pc = "done"
    /\ pf_in = <<Backslash, "n", Quote>>
    /\ pf_out = <<Backslash, "n", Backslash, Quote>>

\* the batches the loop over as_completed has gone through
Counted == {t \in DOMAIN task_state : task_state[t].pc = "merged"}

\* the run is over: _translate_async returned or raised
RunOver == run_pc \in {"done", "aborted"}

\* C25: the progress counter goes up by one for each batch that finished
\* and by nothing else, never goes down, is never above the number of
\* batches and is that number when the run is over; the failure count never
\* goes down and is never above the progress counter.
C25_ProgressCounts ==
    /\ [](/\ pbar_current = Cardinality(Counted)
          /\ pbar_current <= Len(tasks)
          /\ fail_count <= pbar_current
          /\ RunOver => pbar_current = Len(tasks))
    /\ [][/\ pbar_current' \in {pbar_current, pbar_current + 1}
          /\ fail_count' \in {fail_count, fail_count + 1}
          /\ fail_count' # fail_count => pbar_current' # pbar_current]_vars

\* one step of a task inside _call_ai, from a to b
CallStep(a, b) ==
    \* the sleep is followed by the next request of the same call
    /\ a.pc = "sleep" =>
           \/ b.pc = "call" /\ b.net_attempt = a.net_attempt + 1
           \/ b.pc = "cancelled"
    \* a sleep follows a request that failed and was not the fifth
    /\ (a.pc = "call" /\ b.pc = "sleep") =>
           b.net_attempt = a.net_attempt /\ a.net_attempt < CallAttempts - 1
    \* a request that returned, or the fifth that failed, ends the call: a
    \* request after it is the first of a new call
    /\ (a.pc = "call" /\ b.pc = "call") => b.net_attempt = 0
    \* the caller sees the call raise only after the fifth failure
    /\ (/\ a.pc = "call"
        /\ Len(b.ladder) = Len(a.ladder) + 1
        /\ b.ladder[Len(b.ladder)].outcome = "raised")
           => a.net_attempt = CallAttempts - 1
    \* requests are only sent by a task that is in _call_ai
    /\ b.net_attempt # a.net_attempt => a.pc \in {"wait_sem", "call", "sleep"}

\* C26: a call of _call_ai sends at most five requests; a request that
\* returns ends the call with no further request; the call sleeps only
\* after a failed request that is not the fifth, and then sends the next
\* request; the fifth failure is raised to the caller.
C26_CallAiRetries ==
    /\ [](\A t \in DOMAIN task_state :
             /\ task_state[t].net_attempt \in 0..(CallAttempts - 1)
             /\ task_state[t].pc = "sleep" =>
                    task_state[t].net_attempt < CallAttempts - 1)
    /\ [][\A t \in DOMAIN task_state :
              (t \in DOMAIN task_state' /\ task_state'[t] # task_state[t]) =>
                  CallStep(task_state[t], task_state'[t])]_vars

\* a call whose first four requests failed and whose fifth returned a reply
\* that was decoded
C26_Witness ==
    \E t \in DOMAIN task_state :
        /\ task_state[t].pc = "finished"
        /\ task_state[t].net_attempt = CallAttempts - 1
        /\ task_state[t].ladder = <<[tier |-> 1, outcome |-> "parsed"]>>
        /\ task_state[t].ret # EmptyDict

\* the task is in a repair round of _translate_batch
Repairing(st) == st.phase = "fix" /\ st.pc \in {"call", "sleep"}

\* kept holds the entries of decoded, the mismatched ones blanked at most
KeptFrom(kept, decoded) ==
    /\ kept # EmptyDict
    /\ DOMAIN kept = DOMAIN decoded
    /\ \A k \in DOMAIN kept :
           \/ kept[k] = decoded[k]
           \/ kept[k] = <<>> /\ k \in DOMAIN validate_placeholders(decoded)

\* one step of task t in the repair rounds, from a to b
RepairStep(t, a, b) ==
    \* repair calls are numbered from 0, one more per call
    /\ (a.pc = "call" /\ Repairing(b) /\ b.pc = "call") =>
           b.retry = IF a.phase = "fix" THEN a.retry + 1 ELSE 0
    \* a step of the repair rounds keeps the keys of the result
    /\ a.phase = "fix" =>
           /\ DOMAIN b.result = DOMAIN a.result
           /\ b.pc = "finished" => DOMAIN b.ret = DOMAIN a.result
    \* a repair call that raises ends the rounds with the result it had
    /\ (/\ Repairing(a)
        /\ RequestFails(t)
        /\ a.net_attempt = CallAttempts - 1)
           => /\ b.pc = "finished"
              /\ b.result = a.result
              /\ KeptFrom(b.ret, a.result)

\* C27: after a decode at most two repair calls are made for a batch; a
\* repair reply changes values of keys the result has and adds no key; a
\* repair call that raises ends the rounds and the batch returns the
\* result it had.
C27_RepairRounds ==
    /\ [](\A t \in DOMAIN task_state :
             Repairing(task_state[t]) =>
                 /\ task_state[t].retry \in 0..(RepairRounds - 1)
                 /\ task_state[t].result # EmptyDict)
    /\ [][\A t \in DOMAIN task_state :
              (t \in DOMAIN task_state' /\ task_state'[t] # task_state[t]) =>
                  RepairStep(t, task_state[t], task_state'[t])]_vars

\* the first repair reply put one value right, the second repair call
\* raised: the value still mismatched is blank, the other is kept
C27_Witness ==
    \E t \in DOMAIN task_state :
        /\ task_state[t].pc = "finished"
        /\ task_state[t].phase = "fix"
        /\ task_state[t].retry = RepairRounds - 1
        /\ task_state[t].net_attempt = CallAttempts - 1
        /\ task_state[t].result =
               [k \in BatchKeys(t) |->
                   IF k = tasks[t].b[1] THEN Mangled(k) ELSE Faithful(k)]
        /\ task_state[t].ret =
               [k \in BatchKeys(t) |->
                   IF k = tasks[t].b[1] THEN <<>> ELSE Faithful(k)]

\* every batch dispatched has been merged and _translate_async has returned
AllMerged ==
    /\ run_pc = "done"
    /\ \A t \in DOMAIN task_state : task_state[t].pc = "merged"

\* C28: with a gate of width 1 or more and requests that all return or
\* raise, every batch dispatched gets the gate and _translate_batch returns
\* for it while it holds the gate, and the run merges the result of every
\* batch and finishes.
C28_EveryBatchEnds ==
    /\ <>AllMerged
    /\ [][\A t \in DOMAIN task_state :
              (/\ t \in DOMAIN task_state'
               /\ task_state[t].pc # "finished"
               /\ task_state'[t].pc = "finished") => t \in holders]_vars

\* the run ends in one way or the other
RunEnds == <>(AllMerged \/ run_pc = "aborted")

\* the texts of the protected ranges of a file text, in the order of the text
ProtectedTexts(content) ==
    LET ranges == find_protected_ranges(content)
    IN  [r \in DOMAIN ranges |->
            SubSeq(content, ranges[r][1], ranges[r][2] - 1)]

\* the texts occur in content from pos on, one after the other
RECURSIVE OccurInOrder(_, _, _)
OccurInOrder(texts, content, pos) ==
    \/ texts = <<>>
    \/ /\ Find(content, Head(texts), pos) # 0
       /\ OccurInOrder(Tail(texts), content,
                       Find(content, Head(texts), pos) + Len(Head(texts)))

\* the text of the file at p when this run of replace_in_source began
TextBefore(p) ==
    IF rp_run = 1 THEN SourceTree[p].text ELSE first_disk[p].text

\* C29: the text of every protected range of a file as replace_in_source
\* found it is in the file afterwards, unchanged and in the same order,
\* whatever occurrences reach into a range from outside and whatever the
\* punctuation repair rewrites.
C29_ProtectedRangesKept ==
    \A p \in DOMAIN disk :
        OccurInOrder(ProtectedTexts(TextBefore(p)), disk[p].text, 1)

\* C30: every call of _replace_skip_protected gets the protected ranges of
\* the file text it is given, the text as the substitutions before it left it.
C30_RangesOfCurrentText ==
    \A k \in DOMAIN calls :
        calls[k].protected = find_protected_ranges(calls[k].content)

\* the ranges are those of the text given, or there are none
RangesCurrentOrNone ==
    \A k \in DOMAIN calls :
        calls[k].protected \in {<<>>, find_protected_ranges(calls[k].content)}

\* a call that got ranges found anew after a substitution moved them
RangesFoundAnew ==
    \E k \in DOMAIN calls :
        /\ k > 1
        /\ calls[k].protected # <<>>
        /\ calls[k].protected # calls[k - 1].protected
        /\ calls[k].protected = find_protected_ranges(calls[k].content)

\* the batch of t ended DONE: _translate_batch returned a non-empty result
Done(t) ==
    /\ task_state[t].pc \in {"finished", "merged"}
    /\ task_state[t].ret # EmptyDict

\* every string extracted from every file is a key of the map of its file
EveryStringIsKey ==
    \A i \in DOMAIN all_strings :
        \A j \in DOMAIN all_strings[i].strings :
            /\ all_strings[i].file \in DOMAIN result
            /\ all_strings[i].strings[j] \in DOMAIN result[all_strings[i].file]

\* C31: the result of a batch that ended DONE has an entry for every original
\* of the batch, and after a run in which no batch failed every extracted
\* string of every file is a key of the map returned.
C31_DoneCoversBatch ==
    /\ \A t \in DOMAIN task_state :
           Done(t) => BatchKeys(t) \subseteq DOMAIN task_state[t].ret
    /\ (run_pc = "done" /\ fail_count = 0) => EveryStringIsKey

\* C32: the shrinking loop of _split_batch ends, every turn of it that does
\* not break leaves a smaller capacity, the capacity the batches are cut with
\* is 10 or more, and every batch but the last holds that many strings.
C32_ShrinkingEndsAboveFloor ==
    /\ <>(sb_pc \in {"done", "raised"})
    /\ [][(sb_pc = "loop" /\ sb_pc' = "loop") => sb_capacity' < sb_capacity]_vars
    /\ [](sb_pc = "done" =>
            \/ sb_batches = <<sb_items>>
            \/ /\ sb_capacity >= MinCapacity
               /\ \A i \in 1..(Len(sb_batches) - 1) :
                      Len(sb_batches[i]) = sb_capacity)

\* the loop went below the floor and the batches were cut at the floor
C32_Witness ==
    /\ sb_pc = "done"
    /\ Len(sb_batches) = 3
    /\ Len(sb_batches[1]) = MinCapacity
    /\ ~TrialFits

\* the runs of lines kept in the text returned, in its order
KeptRegions == SelectSeq(pf_out, LAMBDA part : part.kind = "lines")

\* the lines, numbered from 1, that a part holds or names
RECURSIVE Range(_, _)
Range(first, last) ==
    IF first > last THEN <<>> ELSE <<first>> \o Range(first + 1, last)

LinesOfPart(part) ==
    IF part.kind = "lines" THEN Range(part.first + 1, part.last)
    ELSE Range(part.first, part.last)

\* the lines within ctx of a hit line, numbered from 0
Windows ==
    { l \in 0..(pf_in.total - 1) :
        \E h \in pf_in.hit_lines : h - pf_in.ctx <= l /\ l <= h + pf_in.ctx }

\* C33: the text _build_context_regions returns is made of runs of lines in
\* ascending order with at least one line left out between two of them; the
\* runs hold every hit line with the lines within W of it, and nothing else;
\* there is one marker, naming at least one line, for each range left
\* out; the lines of the runs and the lines the markers name are the lines
\* of the file, each once, in order.
C33_RegionsAndMarkersCoverFile ==
    pf_pc = "done" =>
        /\ \A i \in DOMAIN KeptRegions : KeptRegions[i].first < KeptRegions[i].last
        /\ \A i \in 1..(Len(KeptRegions) - 1) :
               KeptRegions[i].last < KeptRegions[i + 1].first
        /\ { l \in 0..(pf_in.total - 1) :
               \E i \in DOMAIN KeptRegions :
                   KeptRegions[i].first <= l /\ l < KeptRegions[i].last }
             = Windows
        /\ \A i \in DOMAIN pf_out :
               pf_out[i].kind = "marker" =>
                   /\ pf_out[i].first <= pf_out[i].last
                   /\ i > 1 => pf_out[i - 1].kind = "lines"
        /\ Flatten([i \in DOMAIN pf_out |-> LinesOfPart(pf_out[i])])
             = Range(1, pf_in.total)

\* the windows of two hit lines touch and are joined into one run, after a
\* marker for the first line of the file
C33_Witness ==
    /\ pf_pc = "done"
    /\ pf_in = [total |-> 6, hit_lines |-> {2, 5}, ctx |-> 1]
    /\ pf_out = <<Marker(1, 1), Lines(1, 6)>>

\* C34: merging the batches writes only keys that were dispatched: every key
\* of a file's map is a key of the existing entry or a dispatched string of
\* the file, and in incremental mode every entry of the existing map is in
\* the map with the translation it had.
C34_MergeWritesDispatchedKeysOnly ==
    run_pc \in {"merging", "done"} =>
        \A fp \in DOMAIN result :
            /\ DOMAIN result[fp] \subseteq ExistingKeys(fp) \cup Dispatched(fp)
            /\ mode = "incremental" =>
                   \A k \in ExistingKeys(fp) :
                       /\ k \in DOMAIN result[fp]
                       /\ result[fp][k] = existing[fp][k]

\* the orders a dict of these pairs can be iterated in
Orders(items) ==
    { s \in [DOMAIN items -> { items[i] : i \in DOMAIN items }] :
        \A i, j \in DOMAIN s : i # j => s[i] # s[j] }

\* how many times old_text occurs in content from pos on, as str.count does
RECURSIVE Occurrences(_, _, _)
Occurrences(content, old_text, pos) ==
    IF Find(content, old_text, pos) = 0 THEN 0
    ELSE 1 + Occurrences(content, old_text,
                         Find(content, old_text, pos) + Len(old_text))

\* the file of entry e was read and could be written in the first run
Processed(e) ==
    LET fp == resolve_file_path(e.file, source_root)
    IN  /\ fp.ok
        /\ SourceTree[fp.path].readable
        /\ SourceTree[fp.path].decodable
        /\ SourceTree[fp.path].writable

\* C35: the text replace_in_source leaves in a file is the same in whatever
\* order the pairs of the file are taken, and every literal written for a
\* pair is in the file when the run returns, not rewritten by a later pair.
C35_OrderOfPairsIsIrrelevant ==
    (rp_run = 1 /\ rp_pc = "returned") =>
        \A i \in DOMAIN rp_translations :
            LET e == rp_translations[i]
                path == resolve_file_path(e.file, source_root).path
                before == SourceTree[path].text
            IN  Processed(e) =>
                    /\ \A items \in Orders(e.items) :
                           disk[path].text =
                               text_after(before,
                                          ReplaceInText(before, items, e.file))
                    /\ \A s \in substituted :
                           s.file = e.file =>
                               Occurrences(disk[path].text, s.new_text, 1) >= s.n

\* C36: once the AIConfig is constructed, from whatever --concurrency value
\* and whatever AI_CONCURRENCY value, its concurrency is 1 or more.
C36_ConcurrencyIsPositive ==
    en_pc \in {"steps", "done", "fatal"} => ai_cfg.concurrency >= 1

\* the issues reported for an original
ReportedFor(original) ==
    { i \in DOMAIN cs_reported.issues :
        cs_reported.issues[i].original = original }

\* C37: the check reports one issue, and only one, for each original that
\* has more than one non-empty translation and none for the others; the
\* translation the issue names is the one the unification then gives every
\* file that holds a non-empty translation of the original.
C37_ReportedFixIsAppliedFix ==
    cs_reported.done =>
        /\ \A o \in OriginalsOf(cs_before) :
               Cardinality(ReportedFor(o)) =
                   IF Cardinality(DistinctOf(o, cs_before)) > 1 THEN 1 ELSE 0
        /\ \A i \in DOMAIN cs_reported.issues :
               /\ cs_reported.issues[i].original \in OriginalsOf(cs_before)
               /\ cs_pc = "unified" =>
                      DistinctOf(cs_reported.issues[i].original, cs_translations)
                          = {cs_reported.issues[i].fix_value}

\* three files hold three translations of the phrase, each once: the issue
\* names one of them and the unification wrote it to the three files
C37_Witness ==
    /\ cs_reported.done
    /\ cs_pc = "unified"
    /\ Cardinality(DistinctOf(Phrase, cs_before)) = 3
    /\ Len(cs_reported.issues) >= 1
    /\ \A f \in 1..3 :
           cs_translations[f].pairs[1].translated = cs_reported.issues[1].fix_value

\* the paths of a list
PathsOf(list) == {list[i] : i \in DOMAIN list}

\* the changed files the scan classified as needing translation
NewlyYes ==
    {f \in pf_in.changed_files :
        endswith_rs(f) /\ pf_in.on_disk[f] \in {"YES", "error"}}

\* C38: the list scan_incremental returns holds the previous files that are
\* neither deleted nor changed, and the changed files classified as needing
\* translation, and no other path.
C38_IncrementalScanMerges ==
    (pf_pc = "done" /\ "changed_files" \in DOMAIN pf_in) =>
        PathsOf(pf_out) =
            ((PathsOf(pf_in.previous_files) \ pf_in.deleted_files)
                 \ pf_in.changed_files) \cup NewlyYes

\* the function of the last call, applied for real to a tree
PatchAgain(tree) ==
    IF pf_out.patch = "patch_remove_api_key_clear"
    THEN patch_remove_api_key_clear(tree, FALSE)
    ELSE patch_claude_env_passthrough(tree, FALSE)

TargetOfCall ==
    IF pf_out.patch = "patch_remove_api_key_clear" THEN StoreFile
    ELSE ClaudeFile

\* C39: a patch function called on a file that holds the marker leaves the
\* tree as it was and returns success; called with dry_run it writes
\* nothing; and after a call that was no dry run and returned success, the
\* same function called again changes nothing and returns success.
C39_PatchIdempotentAndDryRunClean ==
    (pf_pc = "done" /\ "tree" \in DOMAIN pf_in) =>
        /\ (/\ pf_out.before[TargetOfCall].exists
            /\ HasPiece(pf_out.before[TargetOfCall].content, PATCH_MARKER))
               => /\ pf_in.tree = pf_out.before
                  /\ pf_in.writes = pf_out.written
                  /\ pf_out.result
        /\ pf_out.dry_run =>
               /\ pf_in.tree = pf_out.before
               /\ pf_in.writes = pf_out.written
        /\ (~pf_out.dry_run /\ pf_out.result) =>
               /\ PatchAgain(pf_in.tree).tree = pf_in.tree
               /\ ~PatchAgain(pf_in.tree).wrote
               /\ PatchAgain(pf_in.tree).result

\* the first patch wrote a file that held its line twice, and was called a
\* second time on the file it had written
C39_Witness ==
    /\ pf_pc = "done"
    /\ "tree" \in DOMAIN pf_in
    /\ pf_in.calls = 2
    /\ pf_in.writes = 1
    /\ pf_out.patch = "patch_remove_api_key_clear"
    /\ ~pf_out.dry_run
    /\ pf_out.result
    /\ pf_out.before[StoreFile].content = new_line \o <<old_line>>
    /\ pf_in.tree = pf_out.before

\* the placeholders of the pair that was checked
PlaceholdersChecked ==
    ElementsOf(extract_placeholders(pf_in.original))
        \cup ElementsOf(extract_placeholders(pf_in.translated))

\* both modules class a placeholder as section 4.1 does
SameClasses ==
    \A ph \in PlaceholdersChecked :
        /\ is_positional(ph) = PositionalForm(ph)
        /\ replace_is_positional(ph) = PositionalForm(ph)

\* C40 as stated: for every original and translation, _check_placeholders
\* accepts their placeholder lists exactly when validate_placeholders
\* reports no error for the pair, and both class the placeholders alike.
C40_ChecksAgreeOnEveryPair ==
    (pf_pc = "done" /\ "translated" \in DOMAIN pf_in) =>
        /\ pf_out.accepted <=> (DOMAIN pf_out.errors = {})
        /\ SameClasses

\* C40, amended: for every original and every non-empty translation,
\* _check_placeholders accepts their placeholder lists exactly when
\* validate_placeholders reports no error for the pair, and both class a
\* placeholder as positional exactly when it is a percent form or a brace
\* form whose inner text is empty or starts with ':'.  (An empty
\* translation is never an error for validate_placeholders, whatever the
\* placeholders of the original.)
C40_ChecksAgreeOnTranslatedPairs ==
    (pf_pc = "done" /\ "translated" \in DOMAIN pf_in) =>
        /\ pf_in.translated # <<>> =>
               (pf_out.accepted <=> (DOMAIN pf_out.errors = {}))
        /\ pf_in.translated = <<>> => DOMAIN pf_out.errors = {}
        /\ SameClasses

\* a positional and a named placeholder, the translation putting the
\* named one first: both accept
C40_Witness ==
    /\ pf_pc = "done"
    /\ "translated" \in DOMAIN pf_in
    /\ pf_in.original = <<"{", "}", "{", "n", "}">>
    /\ pf_in.translated = <<"{", "n", "}", "{", "}">>
    /\ pf_out.accepted
    /\ DOMAIN pf_out.errors = {}

====
